---- MODULE Spec2Model ----
(***************************************************************************)
(* Flag state machine (flag_system.py) and state reflector                 *)
(* (state_reflector.py): facts -> lower flags -> upper flags -> winner ->  *)
(* controller calls.                                                       *)
(*                                                                         *)
(* Optional values (Python None) are sets of at most one element:          *)
(* None is {} and a value x is {x}.  A missing string parameter is "".     *)
(* Dictionaries are kept with their insertion order: a sequence of keys    *)
(* (upper_ids, lower_ids, all_ids) beside the function all_flags.          *)
(***************************************************************************)
EXTENDS Integers, Sequences, FiniteSets, TLC

\* ---------------------------------------------------------------- bounds
\* The clock time.time() reads, as an integer in 1..MaxTime.
MaxTime == 4
\* Facts pushed in one behaviour.
MaxEvents == 3
\* The delay, in clock units, of the delayed conditions of the flag graphs.
Delay == 2
\* Largest priority number of an upper flag in a restored configuration.
MaxPriority == 2

\* ------------------------------------------------------ program constants
\* _stabilize_state: max_iterations = 100.
max_iterations == 100
\* trigger_event: each category keeps at most 10 facts.
MaxRecent == 10

VARIABLES
    all_flags,               \* FlagSystem.all_flags: flag id -> Flag
    upper_ids,               \* keys of FlagSystem.upper_flags, in insertion order
    lower_ids,               \* keys of FlagSystem.lower_flags, in insertion order
    all_ids,                 \* keys of FlagSystem.all_flags, in insertion order
    recent_events,           \* FlagSystem.recent_events: category -> list of facts
    pending_conditions,      \* FlagSystem.pending_conditions
    now,                     \* the last value time.time() returned
    previous_state,          \* StateReflector.previous_state
    current_winner,          \* StateReflector.current_winner (its flag id, "" for None)
    current_scene,           \* StateReflector.current_scene ("" for None)
    current_recording_state, \* StateReflector.current_recording_state
    obs_calls,               \* controller calls issued by the latest reflect_state
    dispatched,              \* upper-flag actions the latest reflect_state handed
                             \* to _execute_upper_action
    lower_dispatched,        \* lower-flag actions the latest reflect_state handed
                             \* to _execute_lower_action, each with is_active
    notifications,           \* emissions of flag_state_changed by the latest tick
    last_applied,            \* history: the value the controller last took for
                             \* each resource, as pairs <<resource, value>>
    pushed,                  \* history: category -> every fact trigger_event was
                             \* called with, in call order
    op,                      \* history: the handler that ran last
    iteration,               \* history: the loop counter at the end of the latest tick
    tick_start_state,        \* history: flag id -> state at the start of the latest tick
    delay_run,               \* history: lower flag id -> the run of ticks at which
                             \* its delayed on-condition has been satisfied
    threads,                 \* ingestion thread -> its position in trigger_event
                             \* and the arguments of its call
    stored_config,           \* the content of the file flag_system.json
    earthquake_states,       \* EventStateManager.earthquake_states
    undetected_timers,       \* EventStateManager.undetected_timers: event id ->
                             \* the time its armed timer is due
    last_eew_time,           \* history: event id -> time of its latest EEW fact
    instance_types,          \* InstanceSystem.instance_types, in insertion order
    active_configs,          \* InstanceSystem.active_configs, in insertion order
    instances,               \* InstanceSystem.instances: instance id -> instance
    event_to_instance,       \* InstanceSystem.event_to_instance
    active_states,           \* InstanceSystem.active_states
    instance_recent_events   \* InstanceSystem.recent_events: its event types in
                             \* insertion order and the list of each

\* The fields of the EventStateManager.
manager_vars == <<earthquake_states, undetected_timers, last_eew_time>>

\* The fields of the InstanceSystem.
instance_vars == <<instance_types, active_configs, instances, event_to_instance,
                   active_states, instance_recent_events>>

vars == <<all_flags, upper_ids, lower_ids, all_ids, recent_events,
          pending_conditions, now, previous_state, current_winner,
          current_scene, current_recording_state, obs_calls, dispatched,
          lower_dispatched, notifications, last_applied, pushed, op, iteration,
          tick_start_state, delay_run, threads,
          stored_config, manager_vars, instance_vars>>

\* ------------------------------------------------------------ data model
None == {}
Some(x) == {x}
Get(o) == CHOOSE x \in o : TRUE

\* A fact payload, as _check_condition reads it: event_data.get(k, False)
\* for k in "is_new", "is_final", "is_canceled", "is_warning".
Fact(is_new, is_final, is_canceled, is_warning) ==
    [is_new |-> is_new, is_final |-> is_final, is_canceled |-> is_canceled,
     is_warning |-> is_warning]

\* The payloads pushed per category: a new or a repeated announcement, a
\* final report or not, a new or an updated warning, the cancellation of a
\* forecast or of a warning.
Payloads(category) ==
    CASE category = "EEW_STARTED" ->
            {Fact(b, FALSE, FALSE, FALSE) : b \in BOOLEAN}
      [] category = "EEW_FINAL" ->
            {Fact(FALSE, b, FALSE, FALSE) : b \in BOOLEAN}
      [] category = "EEW_WARNING" ->
            {Fact(b, FALSE, FALSE, TRUE) : b \in BOOLEAN}
      [] category = "EEW_CANCELED" ->
            {Fact(FALSE, FALSE, b, ~b) : b \in BOOLEAN}

\* FlagCondition: condition_type, params["flag_id"] ("" when absent), delay.
\* condition_type: "flag_on" is the 'other flag on' kind, "flag_off" the
\* 'other flag off' kind, "eew_new" the 'EEW new announcement' kind,
\* "eew_final" the 'EEW final report' kind, "eew_cancel" the 'EEW cancel
\* report' kind, "warn_new" the 'EEW warning new announcement' kind,
\* "warn_update" the 'EEW warning update' kind, "warn_cancel" the 'EEW
\* warning cancelled' kind; anything else is unknown.
FlagCondition(condition_type, flag_id, delay) ==
    [condition_type |-> condition_type, flag_id |-> flag_id, delay |-> delay]

\* FlagAction: action_type and its params ("" when absent).
\* action_type: "scene" (switch scene), "rec_start", "rec_stop", "buffer"
\* (save replay buffer), "src_show", "src_hide", "filter_on", "filter_off",
\* "none".
\* name is scene_name or source_name, item is item_id or filter_name.
FlagAction(action_type, name, item, invert) ==
    [action_type |-> action_type, name |-> name, item |-> item,
     invert |-> invert]

\* Flag.__init__ followed by the configuration's assignments.
Flag(flag_type, priority, linked, on_c, off_c, on_a, off_a) ==
    [flag_type |-> flag_type, state |-> FALSE, priority |-> priority,
     linked_lower_flags |-> linked, on_conditions |-> on_c,
     off_conditions |-> off_c, on_actions |-> on_a, off_actions |-> off_a,
     last_state_change_time |-> None]

UpperFlag(priority, linked, on_a, off_a) ==
    Flag("upper", priority, linked, <<>>, <<>>, on_a, off_a)

LowerFlag(on_c, off_c, on_a, off_a) ==
    Flag("lower", None, <<>>, on_c, off_c, on_a, off_a)

\* ------------------------------------------------- condition evaluation
\* FlagSystem.is_flag_active
is_flag_active(flags, flag_id) ==
    IF flag_id \in DOMAIN flags THEN flags[flag_id].state ELSE FALSE

\* `category in self.recent_events and self.recent_events[category]`
HasEvents(events, category) ==
    category \in DOMAIN events /\ Len(events[category]) > 0

\* A lookup that takes the oldest fact of the category.
OldestEvent(events, category) == events[category][1]

\* self.recent_events[category][-1]
LatestEvent(events, category) == events[category][Len(events[category])]

\* data.get(key, default) on a dictionary.
GetOr(data, key, default) == IF key \in DOMAIN data THEN data[key] ELSE default

\* intensity_map.get(max_intensity, 0)
IntensityMap(max_intensity) ==
    CASE max_intensity = "1" -> 1
      [] max_intensity = "2" -> 2
      [] max_intensity = "3" -> 3
      [] max_intensity = "4" -> 4
      [] max_intensity = "5-" -> 5
      [] max_intensity = "5+" -> 5
      [] max_intensity = "6-" -> 6
      [] max_intensity = "6+" -> 6
      [] max_intensity = "7" -> 7
      [] OTHER -> 0

\* filter_map.get(filter_value, 0).  The filter values are the entries of
\* the settings dialog: "no filter", "N or higher" for 'intensity N or
\* higher' ("5-" is 5 lower, "5+" is 5 upper), and "7" for 'intensity 7'.
FilterMap(filter_value) ==
    CASE filter_value = "no filter" -> 0
      [] filter_value = "1 or higher" -> 1
      [] filter_value = "2 or higher" -> 2
      [] filter_value = "3 or higher" -> 3
      [] filter_value = "4 or higher" -> 4
      [] filter_value = "5- or higher" -> 5
      [] filter_value = "5+ or higher" -> 5
      [] filter_value = "6- or higher" -> 6
      [] filter_value = "6+ or higher" -> 6
      [] filter_value = "7" -> 7
      [] OTHER -> 0

\* FlagSystem._check_intensity_filter
check_intensity_filter(max_intensity, filter_value) ==
    IntensityMap(max_intensity) >= FilterMap(filter_value)

\* FlagSystem._check_eew_condition.  The parameters of a condition beside
\* flag_id are fields the condition has or has not: announcement_types (a
\* list, here a set) and intensity_filter; a fact has the key max_intensity
\* or not.
check_eew_condition(condition, event_data, announcement_type) ==
    LET announcement_types == GetOr(condition, "announcement_types", {})
        intensity_filter == GetOr(condition, "intensity_filter", "no filter")
    IN  IF announcement_types # {} /\ announcement_type \notin announcement_types
        THEN FALSE
        ELSE IF intensity_filter # "no filter"
        THEN check_intensity_filter(GetOr(event_data, "max_intensity", ""),
                                    intensity_filter)
        ELSE TRUE

\* FlagSystem._check_condition.  The announcement kind handed to
\* _check_eew_condition is the name of the condition's kind.
check_condition(condition, flags, events) ==
    CASE condition.condition_type = "flag_on" ->
            /\ condition.flag_id # ""
            /\ is_flag_active(flags, condition.flag_id)
      [] condition.condition_type = "flag_off" ->
            /\ condition.flag_id # ""
            /\ ~is_flag_active(flags, condition.flag_id)
      [] condition.condition_type = "eew_new" ->
            /\ HasEvents(events, "EEW_STARTED")
            /\ LatestEvent(events, "EEW_STARTED").is_new
            /\ check_eew_condition(condition, LatestEvent(events, "EEW_STARTED"),
                                   "eew_new")
      [] condition.condition_type = "eew_final" ->
            /\ HasEvents(events, "EEW_FINAL")
            /\ LatestEvent(events, "EEW_FINAL").is_final
            /\ check_eew_condition(condition, LatestEvent(events, "EEW_FINAL"),
                                   "eew_final")
      [] condition.condition_type = "eew_cancel" ->
            /\ HasEvents(events, "EEW_CANCELED")
            /\ LatestEvent(events, "EEW_CANCELED").is_canceled
            /\ check_eew_condition(condition, LatestEvent(events, "EEW_CANCELED"),
                                   "eew_cancel")
      [] condition.condition_type = "warn_cancel" ->
            /\ HasEvents(events, "EEW_CANCELED")
            /\ LatestEvent(events, "EEW_CANCELED").is_warning
            /\ check_eew_condition(condition, LatestEvent(events, "EEW_CANCELED"),
                                   "warn_cancel")
      [] condition.condition_type = "warn_new" ->
            /\ HasEvents(events, "EEW_WARNING")
            /\ LatestEvent(events, "EEW_WARNING").is_warning
            /\ LatestEvent(events, "EEW_WARNING").is_new
            /\ check_eew_condition(condition, LatestEvent(events, "EEW_WARNING"),
                                   "warn_new")
      [] condition.condition_type = "warn_update" ->
            /\ HasEvents(events, "EEW_WARNING")
            /\ LatestEvent(events, "EEW_WARNING").is_warning
            /\ ~LatestEvent(events, "EEW_WARNING").is_new
            /\ check_eew_condition(condition, LatestEvent(events, "EEW_WARNING"),
                                   "warn_update")
      [] OTHER -> FALSE

\* The scan `for condition in conditions: if check: ...; break`: the index
\* of the first satisfied condition from i on, 0 when there is none.
RECURSIVE FirstSatisfied(_, _, _, _)
FirstSatisfied(conditions, i, flags, events) ==
    IF i > Len(conditions) THEN 0
    ELSE IF check_condition(conditions[i], flags, events) THEN i
    ELSE FirstSatisfied(conditions, i + 1, flags, events)

\* ------------------------------------------------------- delay scheduler
HasPending(pending, flag_id, should_activate) ==
    \E k \in 1..Len(pending) :
        /\ pending[k].flag_id = flag_id
        /\ pending[k].should_activate = should_activate

\* A scheduler that moves the time of the entry a pair already has.
schedule_condition_refresh(pending, flag_id, should_activate, delay, t) ==
    [k \in 1..Len(pending) |->
        IF pending[k].flag_id = flag_id /\ pending[k].should_activate = should_activate
        THEN [pending[k] EXCEPT !.time = t + delay]
        ELSE pending[k]]
    \o (IF HasPending(pending, flag_id, should_activate) THEN <<>>
        ELSE <<[flag_id |-> flag_id, should_activate |-> should_activate,
                delay |-> delay, time |-> t + delay, ready |-> FALSE]>>)

\* FlagSystem._schedule_condition at clock t.
schedule_condition(pending, flag_id, should_activate, delay, t) ==
    IF HasPending(pending, flag_id, should_activate)
    THEN pending
    ELSE Append(pending, [flag_id |-> flag_id,
                          should_activate |-> should_activate,
                          delay |-> delay,
                          time |-> t + delay,
                          ready |-> FALSE])

\* Variant of step 1 that marks an entry ready one clock unit early.
MarkReadyEarly(pending, flags, t) ==
    [k \in 1..Len(pending) |->
        IF t + 1 >= pending[k].time /\ pending[k].flag_id \in DOMAIN flags
        THEN [pending[k] EXCEPT !.ready = TRUE]
        ELSE pending[k]]

\* A step 1 that validates an entry again when its time has come: the entry
\* is marked ready only while a condition of its flag for its target state
\* is satisfied by the facts in the store.
MarkReadyRevalidating(pending, flags, t) ==
    [k \in 1..Len(pending) |->
        IF /\ t >= pending[k].time
           /\ pending[k].flag_id \in DOMAIN flags
           /\ FirstSatisfied(IF pending[k].should_activate
                             THEN flags[pending[k].flag_id].on_conditions
                             ELSE flags[pending[k].flag_id].off_conditions,
                             1, flags, recent_events) > 0
        THEN [pending[k] EXCEPT !.ready = TRUE]
        ELSE pending[k]]

\* _stabilize_state, step 1: every entry whose time has come and whose flag
\* exists is marked ready; every entry is kept.
MarkReady(pending, flags, t) ==
    [k \in 1..Len(pending) |->
        IF t >= pending[k].time /\ pending[k].flag_id \in DOMAIN flags
        THEN [pending[k] EXCEPT !.ready = TRUE]
        ELSE pending[k]]

\* ------------------------------------------------------------- one pass
\* pending_changes is a dict: a sequence of [flag_id, new_state] with
\* distinct flag_ids, in insertion order.
HasKey(changes, flag_id) ==
    \E k \in 1..Len(changes) : changes[k].flag_id = flag_id

\* The decision of one lower flag (the if / elif on should_turn_on and
\* should_turn_off).
Decide(flag_id, state, should_turn_on, should_turn_off) ==
    IF should_turn_on /\ ~state
    THEN <<[flag_id |-> flag_id, new_state |-> TRUE]>>
    ELSE IF should_turn_off /\ state
    THEN <<[flag_id |-> flag_id, new_state |-> FALSE]>>
    ELSE <<>>

\* The body of `for flag in self.lower_flags.values()` for one flag: the two
\* condition scans, their schedule requests, and the flag's decision.
EvaluateLower(flag_id, flags, events, pending, t) ==
    LET flag == flags[flag_id]
        i_on == FirstSatisfied(flag.on_conditions, 1, flags, events)
        on_delayed == i_on > 0 /\ flag.on_conditions[i_on].delay > 0
        should_turn_on == i_on > 0 /\ ~on_delayed
        p1 == IF on_delayed
              THEN schedule_condition(pending, flag_id, TRUE,
                                      flag.on_conditions[i_on].delay, t)
              ELSE pending
        i_off == FirstSatisfied(flag.off_conditions, 1, flags, events)
        off_delayed == i_off > 0 /\ flag.off_conditions[i_off].delay > 0
        should_turn_off == i_off > 0 /\ ~off_delayed
        p2 == IF off_delayed
              THEN schedule_condition(p1, flag_id, FALSE,
                                      flag.off_conditions[i_off].delay, t)
              ELSE p1
    IN  [pending |-> p2,
         changes |-> Decide(flag_id, flag.state, should_turn_on, should_turn_off)]

\* A scan that writes each flag's decision into the flag at once, so that
\* the flags scanned later are evaluated against it.
RECURSIVE ScanLowerMutating(_, _, _, _, _, _, _)
ScanLowerMutating(ids, i, flags, events, pending, changes, t) ==
    IF i > Len(ids) THEN [pending |-> pending, changes |-> changes]
    ELSE LET r == EvaluateLower(ids[i], flags, events, pending, t)
         IN  ScanLowerMutating(ids, i + 1,
                               IF r.changes = <<>> THEN flags
                               ELSE [flags EXCEPT ![ids[i]].state =
                                                      r.changes[1].new_state],
                               events, r.pending, changes \o r.changes, t)

\* `for flag in self.lower_flags.values()`: every flag is evaluated against
\* flags, the states the pass began with; the decisions are collected in
\* changes and written by no step of the scan.
RECURSIVE ScanLower(_, _, _, _, _, _, _)
ScanLower(ids, i, flags, events, pending, changes, t) ==
    IF i > Len(ids) THEN [pending |-> pending, changes |-> changes]
    ELSE LET r == EvaluateLower(ids[i], flags, events, pending, t)
         IN  ScanLower(ids, i + 1, flags, events, r.pending,
                       changes \o r.changes, t)

\* `for pending in self.pending_conditions: if pending.get("ready")`: a ready
\* entry sets the decision of a flag that has none yet and is marked not
\* ready; it stays in the list.
RECURSIVE ApplyReady(_, _, _)
ApplyReady(pending, k, changes) ==
    IF k > Len(pending) THEN [pending |-> pending, changes |-> changes]
    ELSE IF pending[k].ready
    THEN ApplyReady([pending EXCEPT ![k].ready = FALSE], k + 1,
                    IF HasKey(changes, pending[k].flag_id)
                    THEN changes
                    ELSE Append(changes,
                                [flag_id |-> pending[k].flag_id,
                                 new_state |-> pending[k].should_activate]))
    ELSE ApplyReady(pending, k + 1, changes)

\* One committed transition: state, last_state_change_time, and the
\* flag_state_changed notification.
SetState(flags, flag_id, new_state, t) ==
    [flags EXCEPT ![flag_id].state = new_state,
                  ![flag_id].last_state_change_time = Some(t)]

\* Variant of step 4 that stamps the change time of every decided flag,
\* whether or not the decision changes its state.
RECURSIVE CommitChangesStamped(_, _, _, _, _)
CommitChangesStamped(changes, k, flags, emitted, t) ==
    IF k > Len(changes) THEN [flags |-> flags, emitted |-> emitted]
    ELSE LET flag_id == changes[k].flag_id
             new_state == changes[k].new_state
         IN  IF flag_id \notin DOMAIN flags
             THEN CommitChangesStamped(changes, k + 1, flags, emitted, t)
             ELSE CommitChangesStamped(changes, k + 1,
                      SetState(flags, flag_id, new_state, t),
                      IF flags[flag_id].state # new_state
                      THEN Append(emitted, <<flag_id, new_state>>)
                      ELSE emitted, t)

\* Step 4: the decisions are applied in order; a decision that names no flag
\* or re-affirms the state changes nothing.
RECURSIVE CommitChanges(_, _, _, _, _)
CommitChanges(changes, k, flags, emitted, t) ==
    IF k > Len(changes) THEN [flags |-> flags, emitted |-> emitted]
    ELSE LET flag_id == changes[k].flag_id
             new_state == changes[k].new_state
         IN  IF flag_id \in DOMAIN flags /\ flags[flag_id].state # new_state
             THEN CommitChanges(changes, k + 1,
                                SetState(flags, flag_id, new_state, t),
                                Append(emitted, <<flag_id, new_state>>), t)
             ELSE CommitChanges(changes, k + 1, flags, emitted, t)

SeqToSet(s) == {s[k] : k \in 1..Len(s)}

\* An aggregation that asks every linked flag to be on.
should_be_on_all(flags, lower, upper_id) ==
    \A k \in 1..Len(flags[upper_id].linked_lower_flags) :
        /\ flags[upper_id].linked_lower_flags[k] \in SeqToSet(lower)
        /\ flags[flags[upper_id].linked_lower_flags[k]].state

\* An aggregation over every linked id that names a flag, upper or lower.
should_be_on_any_flag(flags, lower, upper_id) ==
    \E k \in 1..Len(flags[upper_id].linked_lower_flags) :
        /\ flags[upper_id].linked_lower_flags[k] \in DOMAIN flags
        /\ flags[flags[upper_id].linked_lower_flags[k]].state

\* should_be_on of _update_upper_flags_from_lower: any() over the linked ids
\* that are keys of lower_flags.
should_be_on(flags, lower, upper_id) ==
    \E k \in 1..Len(flags[upper_id].linked_lower_flags) :
        /\ flags[upper_id].linked_lower_flags[k] \in SeqToSet(lower)
        /\ flags[flags[upper_id].linked_lower_flags[k]].state

\* FlagSystem._update_upper_flags_from_lower
RECURSIVE update_upper_flags_from_lower(_, _, _, _, _, _)
update_upper_flags_from_lower(upper, i, lower, flags, emitted, t) ==
    IF i > Len(upper) THEN [flags |-> flags, emitted |-> emitted]
    ELSE LET on == should_be_on(flags, lower, upper[i])
         IN  IF flags[upper[i]].state # on
             THEN update_upper_flags_from_lower(upper, i + 1, lower,
                      SetState(flags, upper[i], on, t),
                      Append(emitted, <<upper[i], on>>), t)
             ELSE update_upper_flags_from_lower(upper, i + 1, lower, flags,
                                                emitted, t)

\* One iteration of the while loop of _stabilize_state.
Pass(flags, pending, events, upper, lower, t) ==
    LET scanned == ScanLower(lower, 1, flags, events, pending, <<>>, t)
        folded == ApplyReady(scanned.pending, 1, scanned.changes)
        committed == CommitChanges(folded.changes, 1, flags, <<>>, t)
        aggregated == update_upper_flags_from_lower(upper, 1, lower,
                          committed.flags, committed.emitted, t)
    IN  [flags |-> aggregated.flags,
         pending |-> folded.pending,
         emitted |-> aggregated.emitted,
         any_change |-> aggregated.emitted # <<>>]

\* The body of the while loop of _stabilize_state on the loop's state s:
\* a pass that changes nothing ends the loop (break) and leaves the
\* counter; any other pass adds one to it.
LoopBody(s, events, upper, lower, t) ==
    CHOOSE out \in
        {[flags |-> r.flags,
          pending |-> r.pending,
          iteration |-> IF r.any_change THEN s.iteration + 1 ELSE s.iteration,
          emitted |-> s.emitted \o r.emitted,
          done |-> ~r.any_change]
         : r \in {Pass(s.flags, s.pending, events, upper, lower, t)}} : TRUE

\* Up to k iterations of the while loop from s.  The iterations are split
\* in two halves so that the evaluation nests to depth log k and not k; each
\* half is evaluated once (x ranges over a one-element set).
RECURSIVE Iterate(_, _, _, _, _, _)
Iterate(s, k, events, upper, lower, t) ==
    IF k = 0 \/ s.done THEN s
    ELSE IF k = 1 THEN LoopBody(s, events, upper, lower, t)
    ELSE CHOOSE out \in
            {Iterate(x, k - (k \div 2), events, upper, lower, t)
             : x \in {Iterate(s, k \div 2, events, upper, lower, t)}} : TRUE

\* Variant of the loop that gives the flags back as it found them when the
\* cap stops it.
StabilizeDiscardAtCap(flags, pending, events, upper, lower, t) ==
    CHOOSE out \in
        {IF r.iteration >= max_iterations THEN [r EXCEPT !.flags = flags] ELSE r
         : r \in {Iterate([flags |-> flags, pending |-> pending,
                           iteration |-> 0, emitted |-> <<>>, done |-> FALSE],
                          max_iterations, events, upper, lower, t)}} : TRUE

\* A loop that returns to the event loop after one iteration, so that other
\* timers run between the passes of a tick.
StabilizeYielding(flags, pending, events, upper, lower, t) ==
    Iterate([flags |-> flags, pending |-> pending, iteration |-> 0,
             emitted |-> <<>>, done |-> FALSE],
            1, events, upper, lower, t)

\* `while iteration < max_iterations`
Stabilize(flags, pending, events, upper, lower, t) ==
    Iterate([flags |-> flags, pending |-> pending, iteration |-> 0,
             emitted |-> <<>>, done |-> FALSE],
            max_iterations, events, upper, lower, t)

\* FlagSystem.get_all_flags_state
get_all_flags_state(flags) == [id \in DOMAIN flags |-> flags[id].state]

\* -------------------------------------------------------- winner selector
\* `f.last_state_change_time if f.last_state_change_time else 0`
TimeOrZero(flags, flag_id) ==
    IF flags[flag_id].last_state_change_time = None
    THEN 0
    ELSE Get(flags[flag_id].last_state_change_time)

\* A priority key that prefers the flag changed earliest.
PriorityKeyOldest(flags, flag_id) ==
    <<Get(flags[flag_id].priority), TimeOrZero(flags, flag_id)>>

\* The sort key of priority_flags: (priority, -time).
PriorityKey(flags, flag_id) ==
    <<Get(flags[flag_id].priority), 0 - TimeOrZero(flags, flag_id)>>

\* A key that prefers the flag changed earliest.
NullKeyOldest(flags, flag_id) == <<0, TimeOrZero(flags, flag_id)>>

\* The sort of null_flags, key = time with reverse=True: a stable sort by
\* descending time, which is the stable ascending sort by -time.
NullKey(flags, flag_id) == <<0, 0 - TimeOrZero(flags, flag_id)>>

KeyLess(k1, k2) == k1[1] < k2[1] \/ (k1[1] = k2[1] /\ k1[2] < k2[2])

SortKey(flags, flag_id, by_priority) ==
    IF by_priority THEN PriorityKey(flags, flag_id) ELSE NullKey(flags, flag_id)

\* list.sort is stable: an element goes after every element already placed
\* whose key is not greater than its own.
InsertStable(sorted, flag_id, flags, by_priority) ==
    LET pos == Cardinality({k \in 1..Len(sorted) :
                   ~KeyLess(SortKey(flags, flag_id, by_priority),
                            SortKey(flags, sorted[k], by_priority))})
    IN  SubSeq(sorted, 1, pos) \o <<flag_id>> \o SubSeq(sorted, pos + 1, Len(sorted))

RECURSIVE StableSort(_, _, _, _, _)
StableSort(ids, i, sorted, flags, by_priority) ==
    IF i > Len(ids) THEN sorted
    ELSE StableSort(ids, i + 1, InsertStable(sorted, ids[i], flags, by_priority),
                    flags, by_priority)

RECURSIVE Filter(_, _, _)
Filter(ids, i, keep) ==
    IF i > Len(ids) THEN <<>>
    ELSE (IF ids[i] \in keep THEN <<ids[i]>> ELSE <<>>) \o Filter(ids, i + 1, keep)

\* A selection over every upper flag, active or not.
select_winner_unfiltered(flags, upper) ==
    LET priority_flags == Filter(upper, 1,
                              {id \in DOMAIN flags : flags[id].priority # None})
        null_flags == Filter(upper, 1,
                          {id \in DOMAIN flags : flags[id].priority = None})
    IN  IF upper = <<>> THEN ""
        ELSE IF priority_flags # <<>>
        THEN StableSort(priority_flags, 1, <<>>, flags, TRUE)[1]
        ELSE StableSort(null_flags, 1, <<>>, flags, FALSE)[1]

\* StateReflector._select_winner: the winner's flag id, "" for None.
select_winner(flags, upper) ==
    LET active_flags == Filter(upper, 1, {id \in DOMAIN flags : flags[id].state})
        priority_flags == Filter(active_flags, 1,
                              {id \in DOMAIN flags : flags[id].priority # None})
        null_flags == Filter(active_flags, 1,
                          {id \in DOMAIN flags : flags[id].priority = None})
    IN  IF active_flags = <<>> THEN ""
        ELSE IF priority_flags # <<>>
        THEN StableSort(priority_flags, 1, <<>>, flags, TRUE)[1]
        ELSE StableSort(null_flags, 1, <<>>, flags, FALSE)[1]

\* ------------------------------------------------------ resource reflector
\* The reflector's fields a reflect step works on: scene is current_scene,
\* rec is current_recording_state, calls the controller calls of the step.
Call(verb, name, item, value, raised) ==
    [verb |-> verb, name |-> name, item |-> item, value |-> value,
     raised |-> raised]

\* StateReflector._execute_upper_action; raises: the controller call raises.
\* A call that raises leaves the field after it unassigned.
execute_upper_action(action, st, raises) ==
    CASE action.action_type = "scene" ->
            IF action.name # "" /\ st.scene # action.name
            THEN [st EXCEPT
                    !.calls = Append(@, Call("switch_scene", action.name, "", TRUE, raises)),
                    !.scene = IF raises THEN @ ELSE action.name]
            ELSE st
      [] action.action_type = "rec_start" ->
            IF st.rec # Some(TRUE)
            THEN [st EXCEPT
                    !.calls = Append(@, Call("start_recording", "", "", TRUE, raises)),
                    !.rec = IF raises THEN @ ELSE Some(TRUE)]
            ELSE st
      [] action.action_type = "rec_stop" ->
            IF st.rec # Some(FALSE)
            THEN [st EXCEPT
                    !.calls = Append(@, Call("stop_recording", "", "", FALSE, raises)),
                    !.rec = IF raises THEN @ ELSE Some(FALSE)]
            ELSE st
      [] action.action_type = "buffer" ->
            [st EXCEPT !.calls = Append(@, Call("save_replay_buffer", "", "", TRUE, raises))]
      [] OTHER -> st

\* An executor for lower flags that takes the exclusive-resource kinds as
\* well and runs them as _execute_upper_action does.
execute_lower_action_any_kind(action, is_active, st, raises) ==
    CASE action.action_type \in {"scene", "rec_start", "rec_stop", "buffer"} ->
            execute_upper_action(action, st, raises)
      [] action.action_type \in {"src_show", "src_hide"} ->
            IF action.name # "" /\ action.item # ""
            THEN [st EXCEPT !.calls = Append(@, Call("_set_scene_item_visible",
                      action.name, action.item,
                      IF action.action_type = "src_show"
                      THEN (IF is_active THEN ~action.invert ELSE action.invert)
                      ELSE (IF is_active THEN action.invert ELSE ~action.invert),
                      raises))]
            ELSE st
      [] action.action_type \in {"filter_on", "filter_off"} ->
            IF action.name # "" /\ action.item # ""
            THEN [st EXCEPT !.calls = Append(@, Call("set_source_filter_enabled",
                      action.name, action.item,
                      action.action_type = "filter_on", raises))]
            ELSE st
      [] OTHER -> st

\* StateReflector._execute_lower_action
execute_lower_action(action, is_active, st, raises) ==
    CASE action.action_type = "src_show" ->
            IF action.name # "" /\ action.item # ""
            THEN [st EXCEPT !.calls = Append(@, Call("_set_scene_item_visible",
                      action.name, action.item,
                      IF is_active THEN ~action.invert ELSE action.invert, raises))]
            ELSE st
      [] action.action_type = "src_hide" ->
            IF action.name # "" /\ action.item # ""
            THEN [st EXCEPT !.calls = Append(@, Call("_set_scene_item_visible",
                      action.name, action.item,
                      IF is_active THEN action.invert ELSE ~action.invert, raises))]
            ELSE st
      [] action.action_type = "filter_on" ->
            IF action.name # "" /\ action.item # ""
            THEN [st EXCEPT !.calls = Append(@, Call("set_source_filter_enabled",
                      action.name, action.item, TRUE, raises))]
            ELSE st
      [] action.action_type = "filter_off" ->
            IF action.name # "" /\ action.item # ""
            THEN [st EXCEPT !.calls = Append(@, Call("set_source_filter_enabled",
                      action.name, action.item, FALSE, raises))]
            ELSE st
      [] OTHER -> st

\* The controller's side of a call: the resource it sets (none for
\* save_replay_buffer, which sets nothing) and the value asked for.
Resource(call) ==
    CASE call.verb = "switch_scene" -> <<"scene", "", "">>
      [] call.verb \in {"start_recording", "stop_recording"} ->
            <<"recording", "", "">>
      [] call.verb = "_set_scene_item_visible" -> <<"item", call.name, call.item>>
      [] call.verb = "set_source_filter_enabled" ->
            <<"filter", call.name, call.item>>
      [] OTHER -> <<>>

Requested(call) ==
    IF call.verb = "switch_scene" THEN call.name
    ELSE IF call.value THEN "on" ELSE "off"

\* The values the resources hold after the calls calls[k..]: a call that
\* does not raise leaves its value in its resource.
RECURSIVE TakeCalls(_, _, _)
TakeCalls(applied, calls, k) ==
    IF k > Len(calls) THEN applied
    ELSE IF Resource(calls[k]) = <<>> \/ calls[k].raised
    THEN TakeCalls(applied, calls, k + 1)
    ELSE TakeCalls({p \in applied : p[1] # Resource(calls[k])}
                       \cup {<<Resource(calls[k]), Requested(calls[k])>>},
                   calls, k + 1)

\* StateReflector._apply_winner_actions: the winner's on_actions in order.
RECURSIVE apply_winner_actions(_, _, _, _)
apply_winner_actions(actions, k, st, raises) ==
    IF k > Len(actions) THEN st
    ELSE apply_winner_actions(actions, k + 1,
             execute_upper_action(actions[k],
                 [st EXCEPT !.dispatched = Append(@, actions[k])], raises),
             raises)

\* StateReflector._apply_default_state: pass.
apply_default_state(st) == st

\* A reflector that takes every winner for a new one.
winner_changed_always(winner, current) == TRUE

\* winner_changed of _reflect_upper_flags.
winner_changed(winner, current) ==
    \/ winner # "" /\ current = ""
    \/ winner = "" /\ current # ""
    \/ winner # "" /\ current # "" /\ winner # current

\* A reflector out of whose _reflect_upper_flags a raising call propagates:
\* the winner is not recorded.
reflect_upper_flags_propagating(flags, upper, st, raises) ==
    LET winner == select_winner(flags, upper)
        changed == winner_changed(winner, st.winner)
        after == IF changed /\ winner # ""
                 THEN apply_winner_actions(flags[winner].on_actions, 1, st, raises)
                 ELSE st
    IN  IF ~changed /\ winner # "" THEN st
        ELSE IF \E k \in 1..Len(after.calls) : after.calls[k].raised
        THEN after
        ELSE [after EXCEPT !.winner = winner]

\* The off_actions of every upper flag that was on in the previous snapshot
\* and is off now, handed to _execute_upper_action.
RECURSIVE TurnedOffActions(_, _, _, _, _)
TurnedOffActions(upper, i, flags, st, raises) ==
    IF i > Len(upper) THEN st
    ELSE TurnedOffActions(upper, i + 1, flags,
             IF /\ upper[i] \in DOMAIN previous_state
                /\ previous_state[upper[i]]
                /\ ~flags[upper[i]].state
             THEN apply_winner_actions(flags[upper[i]].off_actions, 1, st, raises)
             ELSE st,
             raises)

\* A reflector that runs the off_actions of an upper flag when the flag
\* turns off, before it selects the winner.
reflect_upper_flags_with_off_actions(flags, upper, st, raises) ==
    LET winner == select_winner(flags, upper)
        changed == winner_changed(winner, st.winner)
        st1 == TurnedOffActions(upper, 1, flags, st, raises)
    IN  IF ~changed /\ winner # "" THEN st1
        ELSE [(IF changed
               THEN IF winner # ""
                    THEN apply_winner_actions(flags[winner].on_actions, 1, st1, raises)
                    ELSE apply_default_state(st1)
               ELSE st1)
              EXCEPT !.winner = winner]

\* StateReflector._reflect_upper_flags
reflect_upper_flags(flags, upper, st, raises) ==
    LET winner == select_winner(flags, upper)
        changed == winner_changed(winner, st.winner)
    IN  IF ~changed /\ winner # "" THEN st
        ELSE [(IF changed
               THEN IF winner # ""
                    THEN apply_winner_actions(flags[winner].on_actions, 1, st, raises)
                    ELSE apply_default_state(st)
               ELSE st)
              EXCEPT !.winner = winner]

\* `for action in actions: self._execute_lower_action(action, flag, is_active)`
RECURSIVE LowerActions(_, _, _, _, _)
LowerActions(actions, k, is_active, st, raises) ==
    IF k > Len(actions) THEN st
    ELSE LowerActions(actions, k + 1, is_active,
             execute_lower_action(actions[k], is_active,
                 [st EXCEPT !.lower_dispatched =
                     Append(@, [action |-> actions[k], is_active |-> is_active])],
                 raises),
             raises)

\* A lookup that takes a flag absent from the previous snapshot for on.
was_active_default_on(previous, flag_id) ==
    IF flag_id \in DOMAIN previous THEN previous[flag_id] ELSE TRUE

\* self.previous_state.get(flag_id, False)
was_active(previous, flag_id) ==
    IF flag_id \in DOMAIN previous THEN previous[flag_id] ELSE FALSE

\* StateReflector._reflect_lower_flags
RECURSIVE reflect_lower_flags(_, _, _, _, _, _, _)
reflect_lower_flags(ids, i, flags, current_state, previous, st, raises) ==
    IF i > Len(ids) THEN st
    ELSE LET flag_id == ids[i]
             is_active == current_state[flag_id]
         IN  IF flags[flag_id].flag_type # "lower"
                \/ is_active = was_active(previous, flag_id)
             THEN reflect_lower_flags(ids, i + 1, flags, current_state,
                                      previous, st, raises)
             ELSE reflect_lower_flags(ids, i + 1, flags, current_state, previous,
                      LowerActions(IF is_active THEN flags[flag_id].on_actions
                                   ELSE flags[flag_id].off_actions,
                                   1, is_active, st, raises),
                      raises)

\* ------------------------------------------------------------ flag graphs
\* The configurations load_config reads.  GraphA: two upper flags over two
\* lower flags.  L1 turns on with a new warning and off with a final report,
\* both at once, and the two can hold together; L2 turns on Delay after a
\* new warning and off at once with an updated warning.
GraphA(p1, p2) ==
    [flags |->
        [id \in {"U1", "U2", "L1", "L2"} |->
            CASE id = "U1" ->
                    UpperFlag(p1, <<"L1", "L2">>,
                              <<FlagAction("scene", "A", "", FALSE)>>, <<>>)
              [] id = "U2" ->
                    UpperFlag(p2, <<"L2">>,
                              <<FlagAction("scene", "B", "", FALSE)>>, <<>>)
              [] id = "L1" ->
                    LowerFlag(<<FlagCondition("warn_new", "", 0)>>,
                              <<FlagCondition("eew_final", "", 0)>>,
                              <<>>, <<>>)
              [] id = "L2" ->
                    LowerFlag(<<FlagCondition("warn_new", "", Delay)>>,
                              <<FlagCondition("warn_update", "", 0)>>,
                              <<>>, <<>>)],
     upper |-> <<"U1", "U2">>,
     lower |-> <<"L1", "L2">>,
     categories |-> {"EEW_WARNING", "EEW_FINAL"}]

\* GraphB: each upper flag over its own lower flag, every flag with actions;
\* L1 follows the latest EEW_WARNING fact, L2 the latest EEW_CANCELED fact.
GraphB(p1, p2) ==
    [flags |->
        [id \in {"U1", "U2", "L1", "L2"} |->
            CASE id = "U1" ->
                    UpperFlag(p1, <<"L1">>,
                              <<FlagAction("scene", "A", "", FALSE),
                                FlagAction("rec_start", "", "", FALSE)>>,
                              <<FlagAction("scene", "Z", "", FALSE)>>)
              [] id = "U2" ->
                    UpperFlag(p2, <<"L2">>,
                              <<FlagAction("scene", "B", "", FALSE),
                                FlagAction("rec_stop", "", "", FALSE),
                                FlagAction("buffer", "", "", FALSE)>>,
                              <<FlagAction("rec_start", "", "", FALSE)>>)
              [] id = "L1" ->
                    LowerFlag(<<FlagCondition("warn_new", "", 0)>>,
                              <<FlagCondition("warn_update", "", 0)>>,
                              <<FlagAction("src_show", "A", "1", FALSE),
                                FlagAction("filter_on", "cam", "blur", FALSE)>>,
                              <<FlagAction("src_show", "A", "1", FALSE)>>)
              [] id = "L2" ->
                    LowerFlag(<<FlagCondition("eew_cancel", "", 0)>>,
                              <<FlagCondition("warn_cancel", "", 0)>>,
                              <<FlagAction("filter_on", "cam", "blur", FALSE)>>,
                              <<FlagAction("filter_off", "cam", "blur", FALSE)>>)],
     upper |-> <<"U1", "U2">>,
     lower |-> <<"L1", "L2">>,
     categories |-> {"EEW_WARNING", "EEW_CANCELED"}]

\* Flag.from_dict restores priority, state and last_state_change_time as the
\* configuration file holds them.
Restored(flag, state, time) ==
    [flag EXCEPT !.state = state, !.last_state_change_time = time]

Priorities == {None} \cup {Some(n) : n \in 1..MaxPriority}

ChangeTimes == {None, Some(1), Some(2)}

\* GraphW: three upper flags and a lower flag as a configuration file
\* restores them: p the priorities, s the states, tm the change times.
GraphW(p, s, tm) ==
    [flags |->
        [id \in {"U1", "U2", "U3", "L1"} |->
            IF id = "L1"
            THEN Restored(LowerFlag(<<>>, <<>>, <<>>, <<>>), s[id], None)
            ELSE Restored(UpperFlag(p[id], <<>>,
                                    <<FlagAction("scene", id, "", FALSE)>>, <<>>),
                          s[id], tm[id])],
     upper |-> <<"U1", "U2", "U3">>,
     lower |-> <<"L1">>,
     categories |-> {"EEW_STARTED"}]

WinnerConfigs ==
    {GraphW(p, s, tm) : p \in [{"U1", "U2", "U3"} -> Priorities],
                        s \in [{"U1", "U2", "U3", "L1"} -> BOOLEAN],
                        tm \in [{"U1", "U2", "U3"} -> ChangeTimes]}

\* GraphC: lower flags whose conditions refer to flags, in a cycle.  L1 turns
\* on while L2 is off and off while it is on itself; L2 follows L1.  From
\* both off the passes go (off, off), (on, off), (off, on), (off, off), ...
GraphC(p1, p2) ==
    [flags |->
        [id \in {"U1", "U2", "L1", "L2"} |->
            CASE id = "U1" ->
                    UpperFlag(p1, <<"L1", "L2">>,
                              <<FlagAction("scene", "A", "", FALSE)>>, <<>>)
              [] id = "U2" ->
                    UpperFlag(p2, <<"L2">>,
                              <<FlagAction("scene", "B", "", FALSE)>>, <<>>)
              [] id = "L1" ->
                    LowerFlag(<<FlagCondition("flag_off", "L2", 0)>>,
                              <<FlagCondition("flag_on", "L1", 0)>>,
                              <<>>, <<>>)
              [] id = "L2" ->
                    LowerFlag(<<FlagCondition("flag_on", "L1", 0)>>,
                              <<FlagCondition("flag_off", "L1", 0)>>,
                              <<>>, <<>>)],
     upper |-> <<"U1", "U2">>,
     lower |-> <<"L1", "L2">>,
     categories |-> {"EEW_FINAL"}]

\* The flag graphs of the engine's behaviours and of the reflector's.
EngineConfigs == {GraphA(Some(1), Some(2)), GraphC(Some(1), Some(2))}

ReflectConfigs == {GraphB(Some(1), Some(2)), GraphB(None, None)}

\* ------------------------------------------------------------------ Init
\* The threads that feed facts: the DMDATA handler and the ExpTech handler.
Threads == {"dmdata", "exptech"}

\* FlagSystem.__init__ (load_config adds the upper flags, then the lower
\* flags) and StateReflector.__init__, for configuration c.
InitFlagSystem(c, events, file) ==
    /\ all_flags = c.flags
    /\ upper_ids = c.upper
    /\ lower_ids = c.lower
    /\ all_ids = c.upper \o c.lower
    /\ recent_events = events
    /\ pending_conditions = <<>>
    /\ now = 1
    /\ previous_state = <<>>
    /\ current_winner = ""
    /\ current_scene = ""
    /\ current_recording_state = None
    /\ obs_calls = <<>>
    /\ dispatched = <<>>
    /\ lower_dispatched = <<>>
    /\ notifications = <<>>
    /\ last_applied = {}
    /\ pushed = [category \in c.categories |->
                    IF category \in DOMAIN events THEN events[category] ELSE <<>>]
    /\ op = "init"
    /\ iteration = 0
    /\ tick_start_state = get_all_flags_state(c.flags)
    /\ delay_run = [id \in SeqToSet(c.lower) |->
                       [satisfied |-> FALSE, since |-> None]]
    /\ threads = [th \in Threads |->
                     [pc |-> "idle", event_type |-> "",
                      event_data |-> Fact(FALSE, FALSE, FALSE, FALSE)]]
    /\ stored_config = file
    /\ earthquake_states = <<>>
    /\ undetected_timers = <<>>
    /\ last_eew_time = <<>>

\* InstanceSystem.__init__: load_config adds the instance types types, then
\* the EARTHQUAKE_ACTIVE configurations actives, each with the state False;
\* there is no instance and no fact yet.
InitInstanceSystem(types, actives) ==
    /\ instance_types = types
    /\ active_configs = actives
    /\ instances = <<>>
    /\ event_to_instance = <<>>
    /\ active_states = [active_id \in {actives[k].active_id : k \in 1..Len(actives)}
                            |-> FALSE]
    /\ instance_recent_events = [order |-> <<>>, lists |-> <<>>]

\* The program with the flag graph c and the configuration file file, and
\* with no instance_system.json.
InitFile(c, events, file) ==
    /\ InitFlagSystem(c, events, file)
    /\ InitInstanceSystem(<<>>, <<>>)

\* `os.path.exists(self.config_file)` is false: no configuration was saved.
Missing == [exists |-> FALSE]

\* A graph built in the settings window and not saved, with the facts events
\* in the store.
InitStore(c, events) == InitFile(c, events, Missing)

\* The store starts with an empty list for every category of c: to the
\* program a category with an empty list and a missing category are alike.
InitConfig(c) == InitStore(c, [category \in c.categories |-> <<>>])

Init == \E c \in ReflectConfigs : InitConfig(c)

InitEngine == \E c \in EngineConfigs : InitConfig(c)

InitWinner == \E c \in WinnerConfigs : InitConfig(c)

\* --------------------------------------------------------------- actions
RECURSIVE SumLen(_, _)
SumLen(events, categories) ==
    IF categories = {} THEN 0
    ELSE LET c == CHOOSE x \in categories : TRUE
         IN  Len(events[c]) + SumLen(events, categories \ {c})

\* A buffer that drops the newest fact when it is full.
PushEventDropNewest(list, event_data) ==
    IF Len(list) + 1 > MaxRecent
    THEN SubSeq(Append(list, event_data), 1, Len(list))
    ELSE Append(list, event_data)

\* The list of a category after trigger_event's append and pop(0).
PushEvent(list, event_data) ==
    IF Len(list) + 1 > MaxRecent
    THEN Tail(Append(list, event_data))
    ELSE Append(list, event_data)

\* A trigger_event that stabilizes the flags at once with the fact it stored.
trigger_event_evaluating(event_type, event_data) ==
    \E r \in {Stabilize(all_flags,
                        MarkReady(pending_conditions, all_flags, now),
                        [recent_events EXCEPT
                            ![event_type] = PushEvent(@, event_data)],
                        upper_ids, lower_ids, now)} :
        /\ recent_events' = [recent_events EXCEPT
                                ![event_type] = PushEvent(@, event_data)]
        /\ pushed' = [pushed EXCEPT ![event_type] = Append(@, event_data)]
        /\ all_flags' = r.flags
        /\ pending_conditions' = r.pending
        /\ notifications' = r.emitted
        /\ op' = "event"
        /\ UNCHANGED <<upper_ids, lower_ids, all_ids, now, previous_state,
                       current_winner, current_scene, current_recording_state,
                       obs_calls, dispatched, lower_dispatched, last_applied,
                       iteration, tick_start_state, delay_run, threads,
                       stored_config, manager_vars, instance_vars>>

\* FlagSystem.trigger_event(event_type, event_data)
trigger_event(event_type, event_data) ==
    /\ recent_events' = [recent_events EXCEPT
                            ![event_type] = PushEvent(@, event_data)]
    /\ pushed' = [pushed EXCEPT ![event_type] = Append(@, event_data)]
    /\ op' = "event"
    /\ UNCHANGED <<all_flags, upper_ids, lower_ids, all_ids,
                   pending_conditions, now, previous_state, current_winner,
                   current_scene, current_recording_state, obs_calls,
                   dispatched, lower_dispatched, notifications, last_applied,
                   iteration, tick_start_state, delay_run, threads,
                   stored_config, manager_vars, instance_vars>>

\* A fact arrives, at most MaxEvents times.
TriggerEvent ==
    /\ SumLen(pushed, DOMAIN pushed) < MaxEvents
    /\ \E event_type \in DOMAIN recent_events :
       \E event_data \in Payloads(event_type) :
            trigger_event(event_type, event_data)

\* A burst of facts, long enough to fill the list of a category and to go
\* MaxEvents - 1 past it.
MaxBurst == MaxRecent + MaxEvents - 1

TriggerEventBurst ==
    /\ SumLen(pushed, DOMAIN pushed) < MaxBurst
    /\ \E event_type \in DOMAIN recent_events :
       \E event_data \in Payloads(event_type) :
            trigger_event(event_type, event_data)

\* trigger_event called from the ingestion threads.  The method takes no
\* lock, so the threads interleave between its statements: the membership
\* test, the creation of the list, the append, the length test and pop(0).
ThreadFrame ==
    UNCHANGED <<all_flags, upper_ids, lower_ids, all_ids, pending_conditions,
                now, previous_state, current_winner, current_scene,
                current_recording_state, obs_calls, dispatched,
                lower_dispatched, notifications, last_applied, iteration,
                tick_start_state, delay_run, stored_config, manager_vars,
                instance_vars>>

\* A thread enters trigger_event(event_type, event_data).
ThreadCall ==
    \E th \in Threads :
    \E event_type \in DOMAIN pushed :
    \E event_data \in Payloads(event_type) :
        /\ threads[th].pc = "idle"
        /\ threads' = [threads EXCEPT ![th] = [pc |-> "check",
                                               event_type |-> event_type,
                                               event_data |-> event_data]]
        /\ pushed' = [pushed EXCEPT ![event_type] = Append(@, event_data)]
        /\ op' = "event"
        /\ UNCHANGED recent_events
        /\ ThreadFrame

\* `if event_type not in self.recent_events:`
ThreadCheck ==
    \E th \in Threads :
        /\ threads[th].pc = "check"
        /\ threads' = [threads EXCEPT ![th].pc =
                          IF threads[th].event_type \in DOMAIN recent_events
                          THEN "append" ELSE "create"]
        /\ UNCHANGED <<recent_events, pushed, op>>
        /\ ThreadFrame

\* `self.recent_events[event_type] = []`
ThreadCreate ==
    \E th \in Threads :
        /\ threads[th].pc = "create"
        /\ recent_events' =
              [category \in DOMAIN recent_events \cup {threads[th].event_type} |->
                  IF category = threads[th].event_type THEN <<>>
                  ELSE recent_events[category]]
        /\ threads' = [threads EXCEPT ![th].pc = "append"]
        /\ UNCHANGED <<pushed, op>>
        /\ ThreadFrame

\* `self.recent_events[event_type].append(event_data)`
ThreadAppend ==
    \E th \in Threads :
        /\ threads[th].pc = "append"
        /\ recent_events' = [recent_events EXCEPT ![threads[th].event_type] =
                                Append(@, threads[th].event_data)]
        /\ threads' = [threads EXCEPT ![th].pc = "len"]
        /\ UNCHANGED <<pushed, op>>
        /\ ThreadFrame

\* `if len(self.recent_events[event_type]) > 10:`
ThreadLen ==
    \E th \in Threads :
        /\ threads[th].pc = "len"
        /\ threads' = [threads EXCEPT ![th].pc =
                          IF Len(recent_events[threads[th].event_type]) > MaxRecent
                          THEN "pop" ELSE "done"]
        /\ UNCHANGED <<recent_events, pushed, op>>
        /\ ThreadFrame

\* `self.recent_events[event_type].pop(0)`
ThreadPop ==
    \E th \in Threads :
        /\ threads[th].pc = "pop"
        /\ recent_events[threads[th].event_type] # <<>>
        /\ recent_events' = [recent_events EXCEPT ![threads[th].event_type] =
                                Tail(@)]
        /\ threads' = [threads EXCEPT ![th].pc = "done"]
        /\ UNCHANGED <<pushed, op>>
        /\ ThreadFrame

\* FlagSystem._stabilize_state, run by the stabilization timer when the
\* clock reads t.
StabilizeState(flags, pending, events, upper, lower, t) ==
    Stabilize(flags, MarkReady(pending, flags, t), events, upper, lower, t)

\* Whether the scan of a flag's on_conditions stops at a condition with a
\* delay (its first satisfied on-condition has delay > 0), and that delay.
OnDelayed(flag, flags, events) ==
    LET i == FirstSatisfied(flag.on_conditions, 1, flags, events)
    IN  i > 0 /\ flag.on_conditions[i].delay > 0

OnDelay(flag, flags, events) ==
    flag.on_conditions[FirstSatisfied(flag.on_conditions, 1, flags, events)].delay

\* Whether no off decision stands for the flag: no off-condition is
\* satisfied and no off entry is pending.
Quiet(flag_id, flags, events, pending) ==
    /\ FirstSatisfied(flags[flag_id].off_conditions, 1, flags, events) = 0
    /\ ~HasPending(pending, flag_id, FALSE)

\* History of the delayed on-condition of a lower flag over the ticks.
\* satisfied: it was satisfied at the latest tick.  since: Some(t) when it
\* newly became satisfied at the tick at time t, with the flag off, no off
\* decision standing and every earlier on entry of the flag already applied
\* (its time not after the tick before), and has stayed satisfied with no
\* off decision standing at every tick since; None otherwise.
NextDelayRun(run, flag_id, flags, events, pending, last, t) ==
    LET sat == OnDelayed(flags[flag_id], flags, events)
        quiet == Quiet(flag_id, flags, events, pending)
        start == /\ sat /\ ~run.satisfied /\ ~flags[flag_id].state /\ quiet
                 /\ \A k \in 1..Len(pending) :
                        (pending[k].flag_id = flag_id /\ pending[k].should_activate)
                            => pending[k].time <= last
    IN  [satisfied |-> sat,
         since |-> IF start THEN Some(t)
                   ELSE IF sat /\ quiet THEN run.since
                   ELSE None]

\* A slot that applies the on_actions of the flag of the last emission.
flag_state_changed_dispatch(emitted, flags, st) ==
    IF emitted = <<>> THEN st
    ELSE apply_winner_actions(flags[emitted[Len(emitted)][1]].on_actions, 1, st, FALSE)

\* The slots of the signal FlagSystem.flag_state_changed: nothing in the
\* program connects to it, so the emissions of a tick reach no code of the
\* reflector and leave its state st as it is.
flag_state_changed(emitted, flags, st) == st

Tick ==
    \E t \in {x \in {now, now + 1} : x <= MaxTime} :
    \E r \in {StabilizeState(all_flags, pending_conditions, recent_events,
                             upper_ids, lower_ids, t)} :
    \E st \in {flag_state_changed(r.emitted, r.flags,
                                  [winner |-> current_winner,
                                   scene |-> current_scene,
                                   rec |-> current_recording_state,
                                   calls |-> obs_calls,
                                   dispatched |-> dispatched,
                                   lower_dispatched |-> lower_dispatched])} :
        /\ all_flags' = r.flags
        /\ current_winner' = st.winner
        /\ current_scene' = st.scene
        /\ current_recording_state' = st.rec
        /\ obs_calls' = st.calls
        /\ dispatched' = st.dispatched
        /\ lower_dispatched' = st.lower_dispatched
        /\ notifications' = r.emitted
        /\ pending_conditions' = r.pending
        /\ now' = t
        /\ iteration' = r.iteration
        /\ tick_start_state' = get_all_flags_state(all_flags)
        /\ delay_run' = [id \in DOMAIN delay_run |->
                            NextDelayRun(delay_run[id], id, all_flags,
                                         recent_events, pending_conditions,
                                         now, t)]
        /\ op' = "tick"
        /\ UNCHANGED <<upper_ids, lower_ids, all_ids, recent_events,
                       pushed, previous_state, last_applied, threads,
                       stored_config, manager_vars, instance_vars>>

\* StateReflector.reflect_state, run by the reflection timer.
ReflectState(flags, upper, ids, previous, st, raises) ==
    reflect_lower_flags(ids, 1, flags, get_all_flags_state(flags), previous,
                        reflect_upper_flags(flags, upper, st, raises), raises)

\* One run of reflect_state; raises: the controller's calls raise.
reflect_state(raises) ==
    \E st \in {ReflectState(all_flags, upper_ids, all_ids, previous_state,
                            [winner |-> current_winner,
                             scene |-> current_scene,
                             rec |-> current_recording_state,
                             calls |-> <<>>,
                             dispatched |-> <<>>,
                             lower_dispatched |-> <<>>],
                            raises)} :
        /\ current_winner' = st.winner
        /\ current_scene' = st.scene
        /\ current_recording_state' = st.rec
        /\ obs_calls' = st.calls
        /\ dispatched' = st.dispatched
        /\ lower_dispatched' = st.lower_dispatched
        /\ last_applied' = TakeCalls(last_applied, st.calls, 1)
        /\ previous_state' = get_all_flags_state(all_flags)
        /\ op' = "reflect"
        /\ UNCHANGED <<all_flags, upper_ids, lower_ids, all_ids,
                       recent_events, pushed, pending_conditions, now,
                       notifications, iteration, tick_start_state, delay_run, threads,
                       stored_config, manager_vars, instance_vars>>

\* The reflection timer fires while the controller works.
Reflect == reflect_state(FALSE)

\* The reflection timer fires while the controller's calls raise.
ReflectRaising == reflect_state(TRUE)

\* The flag system and the reflector.
Next == TriggerEvent \/ Tick \/ Reflect

Spec == Init /\ [][Next]_vars

\* The flag system and the reflector with a controller that can fail.
InitFailing == InitConfig(GraphB(Some(1), Some(2)))

NextFailing == TriggerEvent \/ Tick \/ Reflect \/ ReflectRaising

SpecFailing == InitFailing /\ [][NextFailing]_vars

\* The flag system and the reflector over the graph with a delayed
\* condition.
InitDelayed == InitConfig(GraphA(Some(1), Some(2)))

SpecDelayed == InitDelayed /\ [][Next]_vars

\* The fact store under two ingestion threads, each calling trigger_event
\* once.  The store starts as the empty dict of __init__, or with a list
\* of final reports one short of the cap or at the cap.
Filled(n) == [k \in 1..n |-> Fact(FALSE, TRUE, FALSE, FALSE)]

ThreadStores ==
    {<<>>} \cup {[category \in {"EEW_FINAL"} |-> Filled(n)]
                 : n \in {MaxRecent - 1, MaxRecent}}

InitThreads ==
    \E events \in ThreadStores : InitStore(GraphA(Some(1), Some(2)), events)

NextThreads ==
    \/ ThreadCall \/ ThreadCheck \/ ThreadCreate
    \/ ThreadAppend \/ ThreadLen \/ ThreadPop

SpecThreads == InitThreads /\ [][NextThreads]_vars

\* The fact store alone, under bursts of facts.
InitBuffer == InitConfig(GraphA(Some(1), Some(2)))

NextBuffer == TriggerEventBurst

SpecBuffer == InitBuffer /\ [][NextBuffer]_vars

\* The flag system alone: Reflect leaves its variables unchanged.
NextEngine == TriggerEvent \/ Tick

SpecEngine == InitEngine /\ [][NextEngine]_vars

\* The reflector alone, over every restored configuration.
NextWinner == Reflect

SpecWinner == InitWinner /\ [][NextWinner]_vars

\* ---------------------------------------------------------------------------
\* Properties of the stabilization engine (SpecEngine).

Linked(flag_id) ==
    {all_flags[flag_id].linked_lower_flags[k] :
        k \in 1..Len(all_flags[flag_id].linked_lower_flags)}

\* C1: at the end of every tick, a tick stopped by the iteration cap
\* included, the state of every Upper flag equals the OR of the current
\* states of the Lower flags among its linked_lower_flags.
C1_UpperIsOrOfLinked ==
    op = "tick" =>
        \A u \in SeqToSet(upper_ids) :
            all_flags[u].state =
                (\E l \in Linked(u) \cap SeqToSet(lower_ids) : all_flags[l].state)

\* An Upper flag with several linked Lower flags, all on when the tick
\* started and all off when it ended, is off at the end of that tick.
C1_AllLinkedTurnedOff ==
    /\ op = "tick"
    /\ \E u \in SeqToSet(upper_ids) :
        /\ Cardinality(Linked(u)) >= 2
        /\ tick_start_state[u] /\ ~all_flags[u].state
        /\ \A l \in Linked(u) : tick_start_state[l] /\ ~all_flags[l].state

ZeroDelaySatisfied(conditions) ==
    \E i \in 1..Len(conditions) :
        /\ conditions[i].delay = 0
        /\ check_condition(conditions[i], all_flags, recent_events)

\* C7: a Lower flag for which a zero-delay on-condition and a zero-delay
\* off-condition are both satisfied in one tick is off at the end of that
\* tick, whether it was on or off before.
C7_OffWins ==
    op = "tick" =>
        \A l \in SeqToSet(lower_ids) :
            (/\ ZeroDelaySatisfied(all_flags[l].on_conditions)
             /\ ZeroDelaySatisfied(all_flags[l].off_conditions))
                => ~all_flags[l].state

\* C8: a Lower flag that is off and whose only satisfied on-condition has
\* delay d > 0, the condition having newly become satisfied at the tick at
\* time t, stays off at every tick before t + d and is on at the end of the
\* first tick at a time >= t + d; each time the condition newly becomes
\* satisfied, not only the first time.  (Taken with no off decision standing
\* and with every earlier on entry of the flag already applied.)
C8_DelayedTurnOn ==
    op = "tick" =>
        \A l \in DOMAIN delay_run :
            (delay_run[l].since # None /\ ~tick_start_state[l])
                => (all_flags[l].state <=>
                        now >= Get(delay_run[l].since)
                               + OnDelay(all_flags[l], all_flags, recent_events))

\* C9: a pending transition that has become ready is applied in one tick
\* and then removed: after a tick no entry whose time has come is left, so
\* none is applied again in a later tick.
C9_ReadyEntryRemoved ==
    op = "tick" =>
        \A k \in 1..Len(pending_conditions) : pending_conditions[k].time > now

SamePair(e1, e2) ==
    e1.flag_id = e2.flag_id /\ e1.should_activate = e2.should_activate

C10_UniquePairs ==
    \A j, k \in 1..Len(pending_conditions) :
        SamePair(pending_conditions[j], pending_conditions[k]) => j = k

C10_TimeKept ==
    \A j \in 1..Len(pending_conditions) :
        \A k \in 1..Len(pending_conditions') :
            SamePair(pending_conditions[j], pending_conditions'[k])
                => pending_conditions'[k].time = pending_conditions[j].time

\* C10: the pending list holds at most one entry per (flag_id,
\* should_activate) pair, and a schedule request for a pair that already
\* has an entry leaves that entry's ready time unchanged.
C10_OnePendingPerPair == []C10_UniquePairs /\ [][C10_TimeKept]_vars

\* A tick at which the delayed on-condition of a flag is satisfied while an
\* entry for (flag, on), scheduled by an earlier tick, is still waiting.
C10_RequestCoalesced ==
    /\ op = "tick"
    /\ \E l \in SeqToSet(lower_ids) :
        /\ OnDelayed(all_flags[l], all_flags, recent_events)
        /\ \E k \in 1..Len(pending_conditions) :
            /\ pending_conditions[k].flag_id = l
            /\ pending_conditions[k].should_activate
            /\ pending_conditions[k].time > now
            /\ pending_conditions[k].time
                 < now + OnDelay(all_flags[l], all_flags, recent_events)

\* ---------------------------------------------------------------------------
\* Properties of the winner selector (SpecWinner).

ActiveUpper == {u \in SeqToSet(upper_ids) : all_flags[u].state}

Ranked == {u \in ActiveUpper : all_flags[u].priority # None}

\* The time a flag last changed, a flag that never changed counting as the
\* earliest.
ChangeTime(u) ==
    IF all_flags[u].last_state_change_time = None THEN 0
    ELSE Get(all_flags[u].last_state_change_time)

\* C2: when some active Upper flag has a priority, the winner is an active
\* Upper flag with a priority, its priority number the smallest among them
\* and its last_state_change_time the greatest among those of that priority;
\* a flag without priority is never returned.
C2_PriorityWinner ==
    (op = "reflect" /\ Ranked # {}) =>
        /\ current_winner \in Ranked
        /\ \A u \in Ranked :
            /\ Get(all_flags[current_winner].priority) <= Get(all_flags[u].priority)
            /\ all_flags[u].priority = all_flags[current_winner].priority
                => ChangeTime(current_winner) >= ChangeTime(u)

\* Two active flags share the smallest priority, the later changed of them is
\* the winner, and an active flag without priority changed later still.
C2_TieBrokenByTime ==
    /\ op = "reflect"
    /\ \E u, v \in Ranked, n \in ActiveUpper \ Ranked :
        /\ u # v
        /\ all_flags[u].priority = all_flags[v].priority
        /\ ChangeTime(u) > ChangeTime(v)
        /\ ChangeTime(n) > ChangeTime(u)
        /\ current_winner = u

\* C3: when every active Upper flag has no priority, the winner is the
\* active Upper flag with the greatest last_state_change_time.
C3_LatestWinner ==
    (op = "reflect" /\ ActiveUpper # {} /\ Ranked = {}) =>
        /\ current_winner \in ActiveUpper
        /\ \A u \in ActiveUpper : ChangeTime(current_winner) >= ChangeTime(u)

\* Several active flags without priority, changed at different times; the
\* winner is not the one registered first.
C3_LaterBeatsEarlier ==
    /\ op = "reflect"
    /\ Ranked = {}
    /\ upper_ids[1] \in ActiveUpper
    /\ current_winner \in ActiveUpper \ {upper_ids[1]}
    /\ ChangeTime(current_winner) > ChangeTime(upper_ids[1])

\* C4: there is no winner exactly when no Upper flag is active; otherwise
\* the winner is one active Upper flag, never a Lower flag and never an
\* inactive flag.
C4_WinnerIsActiveUpper ==
    op = "reflect" =>
        /\ current_winner = "" <=> ActiveUpper = {}
        /\ current_winner # "" =>
            /\ current_winner \in SeqToSet(upper_ids)
            /\ all_flags[current_winner].flag_type = "upper"
            /\ all_flags[current_winner].state

\* A Lower flag is on, an inactive Upper flag has a smaller priority number
\* than every active one, and the winner is an active Upper flag.
C4_InactiveOutranks ==
    /\ op = "reflect"
    /\ \E l \in SeqToSet(lower_ids) : all_flags[l].state
    /\ current_winner # ""
    /\ all_flags[current_winner].priority # None
    /\ \E u \in SeqToSet(upper_ids) \ ActiveUpper :
        /\ all_flags[u].priority # None
        /\ Get(all_flags[u].priority) < Get(all_flags[current_winner].priority)

\* ---------------------------------------------------------------------------
\* Properties of the reflector (Spec).

\* C5: a tick, the flag_state_changed notifications it emits included, and
\* trigger_event issue no controller call and leave the reflector's record
\* of what it applied as it was; calls are issued in reflect_state only.
C5_OnlyReflectIssuesCalls ==
    [][op' \in {"tick", "event"} =>
          UNCHANGED <<obs_calls, dispatched, current_winner, current_scene,
                      current_recording_state, previous_state>>]_vars

\* A tick that changed the state of an upper flag, and emitted the
\* notification, after a reflect_state that issued calls: the calls stand.
C5_TickAfterCalls ==
    /\ op = "tick"
    /\ obs_calls # <<>>
    /\ \E u \in SeqToSet(upper_ids) : tick_start_state[u] # all_flags[u].state

\* C6: reflect_state hands Upper-flag actions to the controller only when
\* the id of the selected winner differs from the id of the winner applied
\* before; when a new winner exists exactly its on_actions are dispatched,
\* in list order, no other Upper flag's on_actions and no off_actions;
\* afterwards the recorded winner is the selected one.
C6_WinnerActionsOnChange ==
    [][op' = "reflect" =>
          LET winner == select_winner(all_flags, upper_ids)
          IN  /\ current_winner' = winner
              /\ dispatched' = IF winner # current_winner /\ winner # ""
                               THEN all_flags[winner].on_actions
                               ELSE <<>>]_vars

\* A reflect_state that dispatched the on_actions of a new winner while
\* another Upper flag, with on_actions of its own, was active as well.
C6_NewWinnerApplied ==
    /\ op = "reflect"
    /\ current_winner # ""
    /\ dispatched = all_flags[current_winner].on_actions
    /\ Len(dispatched) >= 2
    /\ \E u \in ActiveUpper \ {current_winner} :
        all_flags[u].on_actions # all_flags[current_winner].on_actions

\* ---------------------------------------------------------------------------
\* Properties of the tick (SpecEngine).

ComesDue(t) ==
    \E k \in 1..Len(pending_conditions) :
        now < pending_conditions[k].time /\ pending_conditions[k].time <= t

FlagReference(condition) == condition.condition_type \in {"flag_on", "flag_off"}

WellFormed ==
    /\ \A l \in SeqToSet(lower_ids) :
          /\ \A k \in 1..Len(all_flags[l].on_conditions) :
                ~FlagReference(all_flags[l].on_conditions[k])
          /\ \A k \in 1..Len(all_flags[l].off_conditions) :
                ~FlagReference(all_flags[l].off_conditions[k])
    /\ \A u \in SeqToSet(upper_ids) :
          SeqToSet(all_flags[u].linked_lower_flags) \subseteq SeqToSet(lower_ids)

\* C12 as stated: in a well-formed two-layer graph every tick reaches a pass
\* without a flag change within 2 passes (at most one pass changes a flag)
\* and never reaches the cap of 100 iterations.
C12_TwoPassesSuffice ==
    (op = "tick" /\ WellFormed)
        => (iteration <= 1 /\ iteration < max_iterations)

\* The flags after exactly n passes of the loop from the given flags and
\* pending entries at clock t, whether or not a pass changes a flag.
RECURSIVE FlagsAfterPasses(_, _, _, _)
FlagsAfterPasses(flags, pending, n, t) ==
    IF n = 0 THEN [flags |-> flags, pending |-> pending]
    ELSE IF n = 1
    THEN CHOOSE out \in
            {[flags |-> r.flags, pending |-> r.pending]
             : r \in {Pass(flags, pending, recent_events, upper_ids,
                           lower_ids, t)}} : TRUE
    ELSE CHOOSE out \in
            {FlagsAfterPasses(x.flags, x.pending, n - (n \div 2), t)
             : x \in {FlagsAfterPasses(flags, pending, n \div 2, t)}} : TRUE

\* C13: every tick ends after at most 100 passes, in graphs with a cycle of
\* flag references too; a tick stopped by the cap returns as any other tick
\* does (the entries and the clock of the tick are in place) and leaves the
\* flags as the 100th pass committed them.
C13_TickEndsAtCap ==
    [][op' = "tick" =>
        /\ iteration' <= max_iterations
        /\ iteration' = max_iterations =>
              \E last \in {FlagsAfterPasses(all_flags,
                              MarkReady(pending_conditions, all_flags, now'),
                              max_iterations, now')} :
                  /\ all_flags' = last.flags
                  /\ pending_conditions' = last.pending]_vars

\* A tick of the graph with the cycle stopped by the cap, whose 100th pass
\* left a lower flag in another state than the tick found it in.
C13_CapHitInCycle ==
    /\ op = "tick"
    /\ ~WellFormed
    /\ iteration = max_iterations
    /\ \E l \in SeqToSet(lower_ids) :
          all_flags[l].state # tick_start_state[l]

\* C14: a flag's last_state_change_time is written only by a commit that
\* changes the flag's state, lower or upper.  No step but a tick writes it;
\* a tick that writes it writes the tick's clock; a flag whose state a tick
\* changed carries the tick's clock; and in a tick in which at most one pass
\* changed a flag (so that no flag changed twice) a flag whose state is as
\* before keeps its change time, whatever was decided for it.
C14_ChangeTimeOnlyOnChange ==
    [][\A id \in DOMAIN all_flags :
        /\ all_flags'[id].last_state_change_time
                # all_flags[id].last_state_change_time
              => /\ op' = "tick"
                 /\ all_flags'[id].last_state_change_time = Some(now')
                 /\ iteration' <= 1 => all_flags'[id].state # all_flags[id].state
        /\ all_flags'[id].state # all_flags[id].state
              => all_flags'[id].last_state_change_time = Some(now')]_vars

\* A tick at clock 4 that applied the entry turning L2 on while L2 was on
\* since clock 3: the decision and the aggregation of U2 re-affirmed the
\* states and the change times are still 3.
C14_ReaffirmedKeepsTime ==
    /\ op = "tick"
    /\ now = 4
    /\ iteration = 0
    /\ \E k \in 1..Len(pending_conditions) :
          /\ pending_conditions[k].flag_id = "L2"
          /\ pending_conditions[k].should_activate
          /\ pending_conditions[k].time <= now
    /\ tick_start_state["L2"]
    /\ all_flags["L2"].state
    /\ all_flags["L2"].last_state_change_time = Some(3)
    /\ all_flags["U2"].state
    /\ all_flags["U2"].last_state_change_time = Some(3)

\* The emissions of the latest tick that name the flag.
NotificationsOf(id) ==
    {k \in 1..Len(notifications) : notifications[k][1] = id}

\* C15 as stated: a tick emits flag_state_changed for exactly the flags
\* whose state at its end differs from their state at its start, once per
\* such flag and with the new state, and not at all for a flag whose state
\* is the same at the end as at the start.
C15_NotificationsMatchChanges ==
    op = "tick" =>
        \A id \in DOMAIN all_flags :
            IF all_flags[id].state # tick_start_state[id]
            THEN /\ Cardinality(NotificationsOf(id)) = 1
                 /\ \A k \in NotificationsOf(id) :
                        notifications[k] = <<id, all_flags[id].state>>
            ELSE NotificationsOf(id) = {}

\* ---------------------------------------------------------------------------
\* Properties of the reflector's lower-flag actions and of its calls (Spec).

\* The actions a reflect step owes to the lower flags ids[i..], in order:
\* for every lower flag whose state differs from the previous snapshot (off
\* when absent), its on_actions when it is on and its off_actions when off.
RECURSIVE OwedLowerActions(_, _)
OwedLowerActions(ids, i) ==
    IF i > Len(ids) THEN <<>>
    ELSE LET id == ids[i]
             before == IF id \in DOMAIN previous_state
                       THEN previous_state[id] ELSE FALSE
             actions == IF all_flags[id].state THEN all_flags[id].on_actions
                        ELSE all_flags[id].off_actions
         IN  (IF all_flags[id].flag_type = "lower" /\ all_flags[id].state # before
              THEN [k \in 1..Len(actions) |->
                       [action |-> actions[k], is_active |-> all_flags[id].state]]
              ELSE <<>>)
             \o OwedLowerActions(ids, i + 1)

\* C16: at each reflect step the lower-flag actions dispatched are exactly,
\* for every lower flag whose state differs from its state at the previous
\* reflect step (absent counts as off), its on_actions if it is now on and
\* its off_actions if it is now off, whichever upper flag wins; a lower flag
\* whose state is unchanged dispatches nothing.
C16_LowerEdgeActions ==
    [][op' = "reflect"
          => lower_dispatched' = OwedLowerActions(all_ids, 1)]_vars

\* A reflect step at which L2 has turned on while U1, which does not link
\* L2, stays the winner: no winner action is dispatched, L2's on_actions are.
C16_EdgeUnderOtherWinner ==
    /\ op = "reflect"
    /\ current_winner = "U1"
    /\ dispatched = <<>>
    /\ all_flags["L1"].state
    /\ all_flags["L2"].state
    /\ lower_dispatched =
          [k \in 1..Len(all_flags["L2"].on_actions) |->
              [action |-> all_flags["L2"].on_actions[k], is_active |-> TRUE]]
    /\ lower_dispatched # <<>>

\* Whether none of the calls calls[k..] asks a resource for the value it
\* holds, given the values the resources held before them.
RECURSIVE NoRepeatedValue(_, _, _)
NoRepeatedValue(applied, calls, k) ==
    IF k > Len(calls) THEN TRUE
    ELSE /\ <<Resource(calls[k]), Requested(calls[k])>> \notin applied
         /\ NoRepeatedValue(TakeCalls(applied, <<calls[k]>>, 1), calls, k + 1)

\* C17 as stated: no controller call of the reflector asks for the value
\* last applied to its resource, for the scene, the recording state, the
\* visibility of a scene item and the enabling of a filter alike.
C17_NoRepeatedValue ==
    [][op' = "reflect" => NoRepeatedValue(last_applied, obs_calls', 1)]_vars

\* ---------------------------------------------------------------------------
\* Properties of a reflect step whose controller calls raise (SpecFailing).

Failed(calls) == \E k \in 1..Len(calls) : calls[k].raised

UpperVerbs ==
    {"switch_scene", "start_recording", "stop_recording", "save_replay_buffer"}

\* C18: a reflect step in which a controller call raises changes no flag
\* (state and last_state_change_time), still hands every action of the step
\* to the executors (the new winner's on_actions and the lower flags' edge
\* actions), and records the selected winner; and the reflect step after it,
\* if the winner is the same, issues none of the winner's calls again, and
\* no call at all when no flag changed in between.
C18_FailureContained ==
    [][/\ (op' = "reflect" /\ Failed(obs_calls'))
            => /\ all_flags' = all_flags
               /\ current_winner' = select_winner(all_flags, upper_ids)
               /\ dispatched' =
                     IF /\ select_winner(all_flags, upper_ids) # ""
                        /\ select_winner(all_flags, upper_ids) # current_winner
                     THEN all_flags[select_winner(all_flags, upper_ids)].on_actions
                     ELSE <<>>
               /\ lower_dispatched' = OwedLowerActions(all_ids, 1)
       /\ (Failed(obs_calls) /\ op' = "reflect"
           /\ current_winner' = current_winner)
            => /\ \A k \in 1..Len(obs_calls') : obs_calls'[k].verb \notin UpperVerbs
               /\ previous_state = get_all_flags_state(all_flags)
                     => obs_calls' = <<>>]_vars

\* A reflect step in which switch_scene and start_recording of the new
\* winner U1 and the calls of L1's on_actions all raised: every action was
\* handed over, U1 is recorded, and no scene counts as applied.
C18_RaisedStepCompleted ==
    /\ op = "reflect"
    /\ Len(obs_calls) >= 3
    /\ \A k \in 1..Len(obs_calls) : obs_calls[k].raised
    /\ current_winner = "U1"
    /\ dispatched = all_flags["U1"].on_actions
    /\ lower_dispatched # <<>>
    /\ current_scene = ""
    /\ last_applied = {}

\* ---------------------------------------------------------------------------
\* Properties of the fact store (SpecBuffer, Spec).

\* The last n elements of s, all of s when it has no more than n.
LastN(s, n) == IF Len(s) <= n THEN s ELSE SubSeq(s, Len(s) - n + 1, Len(s))

\* C19: after any sequence of trigger_event calls the list of every
\* category holds at most 10 facts, which are the facts pushed last for that
\* category, in the order of the pushes (the oldest are dropped first), and
\* its last element is the fact pushed last.
C19_BufferKeepsLatest ==
    \A category \in DOMAIN recent_events :
        /\ Len(recent_events[category]) <= MaxRecent
        /\ recent_events[category] = LastN(pushed[category], MaxRecent)
        /\ pushed[category] # <<>>
              => recent_events[category][Len(recent_events[category])]
                    = pushed[category][Len(pushed[category])]

\* More than 10 facts were pushed for a category while another category
\* holds a fact; the first fact pushed differs from the second, and the
\* list now starts with the second.
C19_OldestDropped ==
    \E category \in DOMAIN recent_events :
        /\ Len(pushed[category]) > MaxRecent
        /\ pushed[category][1] # pushed[category][2]
        /\ Len(recent_events[category]) = MaxRecent
        /\ recent_events[category][1] = pushed[category][2]
        /\ \E other \in DOMAIN recent_events \ {category} :
              recent_events[other] # <<>>

\* C20: trigger_event changes the fact store only.  A trigger_event step
\* leaves the flags (state and last_state_change_time), the pending
\* transitions, the clock and the reflector's fields as they are and emits
\* nothing, whatever conditions the new fact satisfies; and a step that
\* changes the state of a flag is a tick.
C20_EventOnlyStoresFact ==
    [][/\ op' = "event"
            => /\ all_flags' = all_flags
               /\ pending_conditions' = pending_conditions
               /\ notifications' = notifications
               /\ now' = now
               /\ previous_state' = previous_state
               /\ current_winner' = current_winner
               /\ current_scene' = current_scene
               /\ current_recording_state' = current_recording_state
               /\ \E category \in DOMAIN recent_events :
                     \A other \in DOMAIN recent_events \ {category} :
                         recent_events'[other] = recent_events[other]
       /\ get_all_flags_state(all_flags') # get_all_flags_state(all_flags)
            => op' = "tick"]_vars

\* A warning was just pushed that satisfies the zero-delay on-condition of
\* L1 and the delayed one of L2, while a transition of L2 is pending and
\* the reflector holds a winner: L1 is still off and the entry is as it was.
C20_FactWaitsForTick ==
    /\ op = "event"
    /\ HasEvents(recent_events, "EEW_WARNING")
    /\ LatestEvent(recent_events, "EEW_WARNING").is_new
    /\ ~all_flags["L1"].state
    /\ check_condition(all_flags["L1"].on_conditions[1], all_flags, recent_events)
    /\ ~check_condition(all_flags["L1"].off_conditions[1], all_flags, recent_events)
    /\ pending_conditions # <<>>
    /\ current_winner # ""
    /\ previous_state # <<>>

\* ---------------------------------------------------------------------------
\* Properties of trigger_event under two threads (SpecThreads).

\* The threads whose call pushed a fact of the category.
Callers(category) ==
    {th \in Threads : threads[th].pc # "idle"
                     /\ threads[th].event_type = category}

\* The sequences of facts of a category that a serial order of the calls
\* leaves pushed: the facts in call order and, when both threads pushed to
\* the category, with the two calls exchanged.
SerialOrders(category) ==
    LET s == pushed[category]
        n == Len(s)
    IN  IF Cardinality(Callers(category)) = 2
        THEN {s, [k \in 1..n |-> IF k = n - 1 THEN s[n]
                                 ELSE IF k = n THEN s[n - 1] ELSE s[k]]}
        ELSE {s}

GraphD(s) ==
    [flags |->
        [id \in {"U1", "U2", "L1", "L2", "L3"} |->
            CASE id = "U1" ->
                    Restored(UpperFlag(Some(1), <<"U1", "U2", "L9">>,
                                       <<FlagAction("scene", "A", "", FALSE)>>,
                                       <<>>),
                             s, None)
              [] id = "U2" ->
                    Flag("upper", Some(2), <<"L1">>,
                         <<FlagCondition("eew_final", "", 0)>>, <<>>,
                         <<FlagAction("scene", "B", "", FALSE)>>, <<>>)
              [] id = "L1" ->
                    LowerFlag(<<FlagCondition("eew_new", "", 0)>>,
                              <<FlagCondition("eew_final", "", 0)>>,
                              <<>>, <<>>)
              [] id = "L2" ->
                    LowerFlag(<<FlagCondition("eew_final", "", Delay),
                                FlagCondition("eew_new", "", 0)>>,
                              <<>>, <<>>, <<>>)
              [] id = "L3" ->
                    Restored(LowerFlag(<<FlagCondition("flag_on", "", 0),
                                         FlagCondition("flag_on", "L9", 0),
                                         FlagCondition("flag_off", "", 0)>>,
                                       <<FlagCondition("flag_off", "L9", 0),
                                         FlagCondition("flag_on", "L1", 0)>>,
                                       <<>>, <<>>),
                             s, None)],
     upper |-> <<"U1", "U2">>,
     lower |-> <<"L1", "L2", "L3">>,
     categories |-> {"EEW_STARTED", "EEW_FINAL"}]

LayerConfigs == {GraphD(s) : s \in BOOLEAN}

InitLayers == \E c \in LayerConfigs : InitConfig(c)

\* list.remove(x): the list without the first occurrence of x.
RECURSIVE RemoveFirst(_, _)
RemoveFirst(list, x) ==
    IF list = <<>> THEN <<>>
    ELSE IF Head(list) = x THEN Tail(list)
    ELSE <<Head(list)>> \o RemoveFirst(Tail(list), x)

\* FlagSystem.remove_flag: the flag leaves the three dictionaries and the
\* linked_lower_flags of the upper flags; conditions that refer to it and
\* pending entries stay as they are.
remove_flag(flags, flag_id) ==
    [id \in DOMAIN flags \ {flag_id} |->
        IF flags[id].flag_type = "upper"
        THEN [flags[id] EXCEPT !.linked_lower_flags = RemoveFirst(@, flag_id)]
        ELSE flags[id]]

\* FlagSettingsWindow._cleanup_deleted_flag_references: every condition whose
\* params name the deleted flag leaves its list.
RECURSIVE WithoutReference(_, _)
WithoutReference(conditions, deleted_flag_id) ==
    IF conditions = <<>> THEN <<>>
    ELSE (IF Head(conditions).flag_id # deleted_flag_id
          THEN <<Head(conditions)>> ELSE <<>>)
         \o WithoutReference(Tail(conditions), deleted_flag_id)

cleanup_deleted_flag_references(flags, deleted_flag_id) ==
    [id \in DOMAIN flags |->
        [flags[id] EXCEPT
            !.on_conditions = WithoutReference(@, deleted_flag_id),
            !.off_conditions = WithoutReference(@, deleted_flag_id)]]

\* The flags the settings window is used to delete.
Removable == {"L1"}

\* FlagSettingsWindow._remove_flag: remove_flag, then the refresh with its
\* cleanup of the references to the deleted flag.
RemoveFlag ==
    \E flag_id \in Removable \cap DOMAIN all_flags :
        /\ all_flags' = cleanup_deleted_flag_references(
                            remove_flag(all_flags, flag_id), flag_id)
        /\ upper_ids' = Filter(upper_ids, 1, DOMAIN all_flags \ {flag_id})
        /\ lower_ids' = Filter(lower_ids, 1, DOMAIN all_flags \ {flag_id})
        /\ all_ids' = Filter(all_ids, 1, DOMAIN all_flags \ {flag_id})
        /\ delay_run' = [id \in DOMAIN delay_run \ {flag_id} |-> delay_run[id]]
        /\ op' = "remove"
        /\ UNCHANGED <<recent_events, pending_conditions, now, previous_state,
                       current_winner, current_scene, current_recording_state,
                       obs_calls, dispatched, lower_dispatched, notifications,
                       last_applied, pushed, iteration, tick_start_state,
                       threads,
                       stored_config, manager_vars, instance_vars>>

NextLayers == TriggerEvent \/ Tick \/ RemoveFlag

SpecLayers == InitLayers /\ [][NextLayers]_vars

\* ---------------------------------------------------------------- C22
\* The flag-reference conditions of a flag whose flag id is missing or names
\* no flag of the graph.
Dangling(flag, flags) ==
    {c \in SeqToSet(flag.on_conditions) \cup SeqToSet(flag.off_conditions) :
        /\ c.condition_type \in {"flag_on", "flag_off"}
        /\ c.flag_id = "" \/ c.flag_id \notin DOMAIN flags}

\* C22: a flag-reference condition, of the 'flag is on' or of the 'flag is
\* off' kind, evaluates to false whenever its flag id is missing or names no
\* flag currently in the graph: no tick finds such a condition satisfied.
C22_DanglingReferenceFalse ==
    op = "tick"
        => \A id \in DOMAIN all_flags :
              \A c \in Dangling(all_flags[id], all_flags) :
                  ~check_condition(c, all_flags, recent_events)

\* ------------------------------------------------ the configuration file
\* FlagCondition.to_dict: the params dictionary goes into the result as it is.
FlagCondition_to_dict(condition) ==
    [type |-> condition.condition_type,
     params |-> [flag_id |-> condition.flag_id],
     delay |-> condition.delay]

\* FlagCondition.from_dict
FlagCondition_from_dict(data) ==
    FlagCondition(GetOr(data, "type", ""),
                  GetOr(data, "params", [flag_id |-> ""]).flag_id,
                  GetOr(data, "delay", 0))

\* FlagAction.to_dict
FlagAction_to_dict(action) ==
    [type |-> action.action_type,
     params |-> [name |-> action.name, item |-> action.item,
                 invert |-> action.invert]]

\* FlagAction.from_dict
FlagAction_from_dict(data) ==
    LET params == GetOr(data, "params",
                        [name |-> "", item |-> "", invert |-> FALSE])
    IN  FlagAction(GetOr(data, "type", ""), params.name, params.item,
                   params.invert)

\* [f(x) for x in list]
ConditionDicts(conditions) ==
    [k \in 1..Len(conditions) |-> FlagCondition_to_dict(conditions[k])]

ActionDicts(actions) ==
    [k \in 1..Len(actions) |-> FlagAction_to_dict(actions[k])]

Conditions(dicts) ==
    [k \in 1..Len(dicts) |-> FlagCondition_from_dict(dicts[k])]

Actions(dicts) ==
    [k \in 1..Len(dicts) |-> FlagAction_from_dict(dicts[k])]

\* Flag.to_dict: the common keys, linked_lower_flags for an upper flag only,
\* the condition lists for a lower flag only.
Flag_to_dict(flag) ==
    IF flag.flag_type = "upper"
    THEN [id |-> flag.flag_id, name |-> flag.name, type |-> flag.flag_type,
          priority |-> flag.priority,
          last_state_change_time |-> flag.last_state_change_time,
          state |-> flag.state,
          on_actions |-> ActionDicts(flag.on_actions),
          off_actions |-> ActionDicts(flag.off_actions),
          linked_lower_flags |-> flag.linked_lower_flags]
    ELSE IF flag.flag_type = "lower"
    THEN [id |-> flag.flag_id, name |-> flag.name, type |-> flag.flag_type,
          priority |-> flag.priority,
          last_state_change_time |-> flag.last_state_change_time,
          state |-> flag.state,
          on_actions |-> ActionDicts(flag.on_actions),
          off_actions |-> ActionDicts(flag.off_actions),
          on_conditions |-> ConditionDicts(flag.on_conditions),
          off_conditions |-> ConditionDicts(flag.off_conditions)]
    ELSE [id |-> flag.flag_id, name |-> flag.name, type |-> flag.flag_type,
          priority |-> flag.priority,
          last_state_change_time |-> flag.last_state_change_time,
          state |-> flag.state,
          on_actions |-> ActionDicts(flag.on_actions),
          off_actions |-> ActionDicts(flag.off_actions)]

\* The flag_type Flag.from_dict settles on: the "type" key, overridden by the
\* legacy "is_upper" key.
TypeOf(data) ==
    IF "is_upper" \in DOMAIN data
    THEN (IF data.is_upper THEN "upper" ELSE "lower")
    ELSE GetOr(data, "type", "upper")

\* A from_dict that reads the priority by truth value, `priority_value if
\* priority_value else None`: priority 0 becomes None.
Flag_from_dict_truthy(data) ==
    [flag_id |-> GetOr(data, "id", ""),
     name |-> GetOr(data, "name", ""),
     flag_type |-> TypeOf(data),
     state |-> GetOr(data, "state", FALSE),
     priority |-> IF GetOr(data, "priority", None) = Some(0) THEN None
                  ELSE GetOr(data, "priority", None),
     linked_lower_flags |->
         IF TypeOf(data) = "upper"
         THEN GetOr(data, "linked_lower_flags", <<>>) ELSE <<>>,
     on_conditions |->
         IF TypeOf(data) = "lower"
         THEN Conditions(GetOr(data, "on_conditions", <<>>)) ELSE <<>>,
     off_conditions |->
         IF TypeOf(data) = "lower"
         THEN Conditions(GetOr(data, "off_conditions", <<>>)) ELSE <<>>,
     on_actions |-> Actions(GetOr(data, "on_actions", <<>>)),
     off_actions |-> Actions(GetOr(data, "off_actions", <<>>)),
     last_state_change_time |-> GetOr(data, "last_state_change_time", None)]

\* Flag.from_dict: priority `priority_value if priority_value is not None
\* else None`; an upper flag gets its links and empty condition lists, a
\* lower flag its condition lists.
Flag_from_dict(data) ==
    [flag_id |-> GetOr(data, "id", ""),
     name |-> GetOr(data, "name", ""),
     flag_type |-> TypeOf(data),
     state |-> GetOr(data, "state", FALSE),
     priority |-> GetOr(data, "priority", None),
     linked_lower_flags |->
         IF TypeOf(data) = "upper"
         THEN GetOr(data, "linked_lower_flags", <<>>) ELSE <<>>,
     on_conditions |->
         IF TypeOf(data) = "lower"
         THEN Conditions(GetOr(data, "on_conditions", <<>>)) ELSE <<>>,
     off_conditions |->
         IF TypeOf(data) = "lower"
         THEN Conditions(GetOr(data, "off_conditions", <<>>)) ELSE <<>>,
     on_actions |-> Actions(GetOr(data, "on_actions", <<>>)),
     off_actions |-> Actions(GetOr(data, "off_actions", <<>>)),
     last_state_change_time |-> GetOr(data, "last_state_change_time", None)]

\* The three dictionaries of a FlagSystem: upper and lower the keys of
\* upper_flags and lower_flags, ids those of all_flags, in insertion order.
Empty == [flags |-> <<>>, upper |-> <<>>, lower |-> <<>>, ids |-> <<>>]

\* dict[key] = value: a new key goes to the end, an old key keeps its place.
WithKey(keys, key) == IF key \in SeqToSet(keys) THEN keys ELSE Append(keys, key)

\* FlagSystem.add_flag
add_flag(sys, flag) ==
    [flags |-> [id \in DOMAIN sys.flags \cup {flag.flag_id} |->
                   IF id = flag.flag_id THEN flag ELSE sys.flags[id]],
     upper |-> IF flag.flag_type = "upper"
               THEN WithKey(sys.upper, flag.flag_id) ELSE sys.upper,
     lower |-> IF flag.flag_type = "upper"
               THEN sys.lower ELSE WithKey(sys.lower, flag.flag_id),
     ids |-> WithKey(sys.ids, flag.flag_id)]

\* An entry of the file on which Flag.from_dict raises: it is no dictionary.
Raises(flag_data) == "raises" \in DOMAIN flag_data

\* The loops of load_config over a list of entries: from_dict and add_flag
\* entry by entry, until an entry raises.
RECURSIVE LoadEntries(_, _, _)
LoadEntries(entries, k, r) ==
    IF k > Len(entries) \/ r.failed THEN r
    ELSE IF Raises(entries[k]) THEN [r EXCEPT !.failed = TRUE]
    ELSE LoadEntries(entries, k + 1,
                     [r EXCEPT !.sys = add_flag(@, Flag_from_dict(entries[k]))])

\* FlagSystem.load_config on the dictionaries of __init__: a missing file
\* loads nothing; an unreadable file raises before any flag is added; then
\* the upper entries and the lower entries are loaded.  The except clause
\* prints and returns: the flags added before an entry raised stay.
load_config(file) ==
    IF ~file.exists THEN [sys |-> Empty, failed |-> FALSE]
    ELSE IF ~file.parses THEN [sys |-> Empty, failed |-> TRUE]
    ELSE LoadEntries(file.lower_flags, 1,
                     LoadEntries(file.upper_flags, 1,
                                 [sys |-> Empty, failed |-> FALSE]))

\* FlagSystem.save_config: the entries of the file.
save_config(flags, upper, lower) ==
    [exists |-> TRUE, parses |-> TRUE,
     upper_flags |-> [k \in 1..Len(upper) |-> Flag_to_dict(flags[upper[k]])],
     lower_flags |-> [k \in 1..Len(lower) |-> Flag_to_dict(flags[lower[k]])]]

\* ---- the files the program is started on
\* An entry that is no dictionary.
Malformed == [raises |-> TRUE]

\* A file that cannot be read or is no JSON.
Unreadable == [exists |-> TRUE, parses |-> FALSE]

\* Entries as save_config writes them: upper flag U1 over L1 with every
\* priority (0 included), state and change time; lower flag L1 with a
\* zero-delay on-condition, a delayed off-condition and actions.
UpperEntries ==
    {[id |-> "U1", name |-> "quake", type |-> "upper", priority |-> p,
      last_state_change_time |-> tm, state |-> st,
      on_actions |-> <<[type |-> "scene",
                        params |-> [name |-> "A", item |-> "",
                                    invert |-> FALSE]]>>,
      off_actions |-> <<>>,
      linked_lower_flags |-> <<"L1">>] :
        p \in {None, Some(0), Some(1)}, tm \in {None, Some(0), Some(1)},
        st \in BOOLEAN}

LowerEntries ==
    {[id |-> "L1", name |-> "eew", type |-> "lower", priority |-> None,
      last_state_change_time |-> tm, state |-> st,
      on_actions |-> <<[type |-> "src_show",
                        params |-> [name |-> "A", item |-> "1",
                                    invert |-> TRUE]]>>,
      off_actions |-> <<>>,
      on_conditions |-> <<[type |-> "eew_new", params |-> [flag_id |-> ""],
                           delay |-> 0]>>,
      off_conditions |-> <<[type |-> "flag_on", params |-> [flag_id |-> "U1"],
                            delay |-> Delay]>>] :
        tm \in {None, Some(1)}, st \in BOOLEAN}

\* Entries of an older version: the kind under "is_upper", no priority, no
\* state, no change time.
LegacyUpper == [id |-> "U1", name |-> "quake", is_upper |-> TRUE,
                linked_lower_flags |-> <<"L1">>]

LegacyLower == [id |-> "L1", name |-> "eew", is_upper |-> FALSE]

Files ==
    {Missing, Unreadable}
    \cup {[exists |-> TRUE, parses |-> TRUE, upper_flags |-> u,
           lower_flags |-> l] :
            u \in {<<e>> : e \in UpperEntries \cup {LegacyUpper}}
                    \cup {<<Malformed>>},
            l \in {<<e>> : e \in LowerEntries \cup {LegacyLower}}
                    \cup {<<e, Malformed>> : e \in LowerEntries}
                    \cup {<<Malformed>>}}

\* FlagSystem.__init__ up to the call of load_config: empty dictionaries, the
\* stabilization timer started, the file on disk as it is.
InitConfigFile ==
    \E file \in Files :
        InitFile([flags |-> <<>>, upper |-> <<>>, lower |-> <<>>,
                  categories |-> {"EEW_STARTED"}],
                 [category \in {"EEW_STARTED"} |-> <<>>], file)

\* The call of load_config that ends __init__.
LoadConfig ==
    /\ op = "init"
    /\ \E r \in {load_config(stored_config)} :
        /\ all_flags' = r.sys.flags
        /\ upper_ids' = r.sys.upper
        /\ lower_ids' = r.sys.lower
        /\ all_ids' = r.sys.ids
        /\ tick_start_state' = get_all_flags_state(r.sys.flags)
        /\ delay_run' = [id \in SeqToSet(r.sys.lower) |->
                            [satisfied |-> FALSE, since |-> None]]
    /\ op' = "load"
    /\ UNCHANGED <<recent_events, pending_conditions, now, previous_state,
                   current_winner, current_scene, current_recording_state,
                   obs_calls, dispatched, lower_dispatched, notifications,
                   last_applied, pushed, iteration, threads, stored_config, manager_vars,
                   instance_vars>>

\* The settings window's save button: save_config.
SaveConfig ==
    /\ op # "init"
    /\ stored_config' = save_config(all_flags, upper_ids, lower_ids)
    /\ op' = "save"
    /\ UNCHANGED <<all_flags, upper_ids, lower_ids, all_ids, recent_events,
                   pending_conditions, now, previous_state, current_winner,
                   current_scene, current_recording_state, obs_calls,
                   dispatched, lower_dispatched, notifications, last_applied,
                   pushed, iteration, tick_start_state, delay_run, threads,
                   manager_vars, instance_vars>>

\* The timers fire once the constructor has returned.
TimerTick == op # "init" /\ Tick

EventAfterLoad == op # "init" /\ TriggerEvent

NextConfigFile == LoadConfig \/ SaveConfig \/ TimerTick \/ EventAfterLoad

SpecConfigFile == InitConfigFile /\ [][NextConfigFile]_vars

\* ---------------------------------------------------------------- C23
\* The entries of the stored file that carry every key to_dict writes.
Canonical(file) ==
    IF ~(file.exists /\ file.parses) THEN {}
    ELSE {e \in SeqToSet(file.upper_flags) \cup SeqToSet(file.lower_flags) :
            ~Raises(e) /\ "type" \in DOMAIN e /\ "state" \in DOMAIN e}

\* Whether from_dict(to_dict(flag)) has the fields of flag the claim names.
SameFields(flag, restored) ==
    /\ restored.flag_id = flag.flag_id
    /\ restored.name = flag.name
    /\ restored.flag_type = flag.flag_type
    /\ restored.priority = flag.priority
    /\ restored.state = flag.state
    /\ restored.last_state_change_time = flag.last_state_change_time
    /\ restored.on_conditions = flag.on_conditions
    /\ restored.off_conditions = flag.off_conditions
    /\ restored.on_actions = flag.on_actions
    /\ restored.off_actions = flag.off_actions

\* C23: serialization round-trips.  For every flag of the graph,
\* from_dict(to_dict(flag)) has the same id, name, kind, priority (null stays
\* null, each integer that integer), state, change time, conditions and
\* actions, and serializing it again gives the same dictionary; the same
\* holds for every dictionary of the stored file that to_dict can have
\* written.
C23_RoundTrip ==
    /\ \A id \in DOMAIN all_flags :
          /\ SameFields(all_flags[id], Flag_from_dict(Flag_to_dict(all_flags[id])))
          /\ Flag_to_dict(Flag_from_dict(Flag_to_dict(all_flags[id])))
                = Flag_to_dict(all_flags[id])
    /\ \A e \in Canonical(stored_config) :
          Flag_to_dict(Flag_from_dict(e)) = e

\* A saved graph whose upper flag has priority 0, is on and changed at time
\* 0, beside a lower flag with conditions, a change time and a set state.
C23_SavedWithZeroPriority ==
    /\ op = "save"
    /\ stored_config = save_config(all_flags, upper_ids, lower_ids)
    /\ "U1" \in DOMAIN all_flags /\ "L1" \in DOMAIN all_flags
    /\ all_flags["U1"].priority = Some(0)
    /\ all_flags["U1"].state
    /\ all_flags["U1"].last_state_change_time # None
    /\ all_flags["L1"].state
    /\ all_flags["L1"].priority = None
    /\ all_flags["L1"].on_conditions # <<>>
    /\ all_flags["L1"].off_conditions[1].delay = Delay

\* ---------------------------------------------------------------- C24
\* Whether load_config raises on the file.
LoadFails(file) == load_config(file).failed

\* C24: when loading the configuration fails, the system starts with an
\* empty flag graph: no flag of the failed load remains registered.
C24_FailedLoadLeavesEmptyGraph ==
    (op = "load" /\ LoadFails(stored_config))
        => /\ DOMAIN all_flags = {}
           /\ upper_ids = <<>>
           /\ lower_ids = <<>>

\* ---------------------------------------------------------------- C25
\* The newest fact of category EEW_STARTED is a new announcement.
NewAnnouncement ==
    /\ "EEW_STARTED" \in DOMAIN recent_events
    /\ recent_events["EEW_STARTED"] # <<>>
    /\ recent_events["EEW_STARTED"][Len(recent_events["EEW_STARTED"])].is_new

\* The lower flags whose on-condition is the zero-delay 'new EEW
\* announcement' condition.
OnNewAnnouncement ==
    {id \in SeqToSet(lower_ids) :
        all_flags[id].on_conditions = <<FlagCondition("eew_new", "", 0)>>}

Orders(ids) ==
    {order \in [1..Len(ids) -> SeqToSet(ids)] :
        \A i, j \in 1..Len(ids) : order[i] = order[j] => i = j}

\* C26: the winner is a function of the snapshot alone.  The same upper
\* flags, with the same states, priorities and change times, registered in
\* any other order give the winner the reflect step has just selected.
C26_WinnerIndependentOfOrder ==
    op = "reflect"
        => \A order \in Orders(upper_ids) :
              select_winner(all_flags, order) = current_winner

\* ---------------------------------------------------------------- C27
\* The flags are as a completed tick leaves them: the loop ran into the cap,
\* or one more pass over them changes no flag.
Completed ==
    \/ iteration = max_iterations
    \/ Pass(all_flags, pending_conditions, recent_events, upper_ids,
            lower_ids, now).flags = all_flags

\* The state the latest tick left flag id in: that of its last notification
\* in the tick, or the one the tick began with.
LeftByTick(id) ==
    LET ks == {k \in 1..Len(notifications) : notifications[k][1] = id}
    IN  IF ks = {} THEN tick_start_state[id]
        ELSE notifications[CHOOSE k \in ks : \A j \in ks : j <= k][2]

\* C27: a reflect step never runs between two passes of a tick.  Whenever a
\* handler can run, the flag states are those the latest tick left; what a
\* tick leaves is a completed state; and the snapshot a reflect step reads
\* and stores is that state.
C27_ReflectReadsCompletedTick ==
    /\ \A id \in DOMAIN all_flags : all_flags[id].state = LeftByTick(id)
    /\ op = "tick" => Completed
    /\ op = "reflect" => previous_state = get_all_flags_state(all_flags)

\* A reflect step after a tick in which L1 and U1 were on in passes and off
\* at the end: no scene was requested for the passing states.
C27_TransientStateNotReflected ==
    /\ op = "reflect"
    /\ iteration = max_iterations
    /\ <<"U1", TRUE>> \in SeqToSet(notifications)
    /\ ~all_flags["U1"].state
    /\ ~all_flags["U2"].state
    /\ previous_state = get_all_flags_state(all_flags)
    /\ obs_calls = <<>>
    /\ current_scene = ""

\* ---------------------------------------------------------------- C28
\* The lower flags of the graph among the ids an upper flag links.
LinkedLower(upper_id) ==
    SeqToSet(all_flags[upper_id].linked_lower_flags) \cap SeqToSet(lower_ids)

\* C28: the aggregation is one layer deep.  After every tick an upper flag
\* is on exactly when one of the lower flags it links is on: linked ids that
\* name the flag itself, another upper flag or no flag count for nothing,
\* the conditions stored on an upper flag count for nothing, and an upper
\* flag that links no existing lower flag is off.
C28_UpperFollowsLowerOnly ==
    op = "tick"
        => \A u \in SeqToSet(upper_ids) :
              /\ all_flags[u].state
                    = (\E id \in LinkedLower(u) : all_flags[id].state)
              /\ LinkedLower(u) = {} => ~all_flags[u].state

\* A tick has turned U1 off, restored on and linking itself, the upper flag
\* U2 and a missing id, while U2 is on at the end of the tick.
C28_SelfLinkedUpperTurnedOff ==
    /\ op = "tick"
    /\ tick_start_state["U1"]
    /\ ~all_flags["U1"].state
    /\ all_flags["U1"].linked_lower_flags = <<"U1", "U2", "L9">>
    /\ all_flags["U2"].state
    /\ <<"U1", FALSE>> \in SeqToSet(notifications)

\* --------------------------------------------------- EventStateManager
\* The time after which an event without further information counts as not
\* felt: `elapsed >= 600`, in units of 200 seconds.
UndetectedAfter == 3

\* The events the feeds report on.
EventIds == {"E1"}

\* EventStateManager.create_state, with eew_first_received_time as handle_eew
\* sets it right after.
create_state(first_time) ==
    [eew_active |-> FALSE, eew_canceled |-> FALSE, eew_final |-> FALSE,
     eew_first_received_time |-> first_time,
     report_sokuhou |-> FALSE, report_epicenter |-> FALSE,
     report_detail |-> FALSE, earthquake_completed |-> FALSE]

\* EventStateManager.stop_undetected_timer: cancel and delete the entry.
stop_undetected_timer(timers, event_id) ==
    [id \in DOMAIN timers \ {event_id} |-> timers[id]]

\* check_undetected, the closure of start_undetected_timer, when the clock
\* reads t.  fired: the event was declared not felt.  The timer it arms,
\* threading.Timer(1.0, check_undetected), is due one unit later.
check_undetected(states, timers, event_id, t) ==
    IF event_id \notin DOMAIN states
    THEN [states |-> states, timers |-> timers, fired |-> FALSE]
    ELSE IF \/ states[event_id].earthquake_completed
            \/ states[event_id].eew_canceled
            \/ states[event_id].report_sokuhou
            \/ states[event_id].report_epicenter
            \/ states[event_id].report_detail
    THEN [states |-> states,
          timers |-> stop_undetected_timer(timers, event_id),
          fired |-> FALSE]
    ELSE IF /\ states[event_id].eew_first_received_time # None
            /\ t - Get(states[event_id].eew_first_received_time)
                  >= UndetectedAfter
    THEN [states |-> [states EXCEPT ![event_id].earthquake_completed = TRUE],
          timers |-> stop_undetected_timer(timers, event_id),
          fired |-> TRUE]
    ELSE [states |-> states,
          timers |-> [id \in DOMAIN timers \cup {event_id} |->
                         IF id = event_id THEN t + 1 ELSE timers[id]],
          fired |-> FALSE]

\* EventStateManager.start_undetected_timer: stop the old timer, then the
\* first check at once.
start_undetected_timer(states, timers, event_id, t) ==
    check_undetected(states, stop_undetected_timer(timers, event_id),
                     event_id, t)

\* The category handle_eew pushes the fact under.
FactType(is_new, is_final, is_warning, is_canceled) ==
    IF is_canceled THEN "EEW_CANCELED"
    ELSE IF is_final THEN "EEW_FINAL"
    ELSE IF is_warning THEN "EEW_WARNING"
    ELSE IF is_new THEN "EEW_STARTED"
    ELSE "EEW_UPDATED"

\* The state part of handle_eew: a new event gets its state, its first time
\* and its timer; then the EEW fields are set and a cancel stops the timer.
eew_state(states, timers, event_id, is_final, is_canceled, t) ==
    LET is_new == event_id \notin DOMAIN states
        created == [id \in DOMAIN states \cup {event_id} |->
                       IF id = event_id /\ is_new
                       THEN create_state(Some(t)) ELSE states[id]]
        started == IF is_new
                   THEN start_undetected_timer(created, timers, event_id, t)
                   ELSE [states |-> created, timers |-> timers,
                         fired |-> FALSE]
    IN  IF is_canceled
        THEN [states |-> [started.states EXCEPT
                             ![event_id].eew_canceled = TRUE,
                             ![event_id].eew_active = FALSE],
              timers |-> stop_undetected_timer(started.timers, event_id)]
        ELSE IF is_final
        THEN [states |-> [started.states EXCEPT
                             ![event_id].eew_final = TRUE,
                             ![event_id].eew_active = FALSE],
              timers |-> started.timers]
        ELSE [states |-> [started.states EXCEPT
                             ![event_id].eew_active = TRUE,
                             ![event_id].eew_final = FALSE,
                             ![event_id].eew_canceled = FALSE],
              timers |-> started.timers]

\* What no handler of the EventStateManager touches.
ManagerFrame ==
    UNCHANGED <<all_flags, upper_ids, lower_ids, all_ids, pending_conditions,
                previous_state, current_winner, current_scene,
                current_recording_state, obs_calls, dispatched,
                lower_dispatched, notifications, last_applied, iteration,
                tick_start_state, delay_run, threads, stored_config,
                instance_vars>>

\* EventStateManager.handle_eew for an EEW telegram of an event: the state,
\* the timer, and the fact pushed to the flag system.
handle_eew(event_id, is_final, is_warning, is_canceled) ==
    \E r \in {eew_state(earthquake_states, undetected_timers, event_id,
                        is_final, is_canceled, now)} :
    \E event_type \in {FactType(event_id \notin DOMAIN earthquake_states,
                                is_final, is_warning, is_canceled)} :
        /\ earthquake_states' = r.states
        /\ undetected_timers' = r.timers
        /\ last_eew_time' = [id \in DOMAIN last_eew_time \cup {event_id} |->
                                IF id = event_id THEN now ELSE last_eew_time[id]]
        /\ recent_events' =
              [recent_events EXCEPT ![event_type] =
                  PushEvent(@, Fact(event_id \notin DOMAIN earthquake_states,
                                    is_final, is_canceled, is_warning))]
        /\ pushed' =
              [pushed EXCEPT ![event_type] =
                  Append(@, Fact(event_id \notin DOMAIN earthquake_states,
                                 is_final, is_canceled, is_warning))]
        /\ op' = "eew"
        /\ UNCHANGED now
        /\ ManagerFrame

\* An EEW telegram arrives: a forecast, a final report or a cancellation.
HandleEew ==
    /\ SumLen(pushed, DOMAIN pushed) < MaxEvents
    /\ \E event_id \in EventIds :
       \E kind \in {"forecast", "final", "canceled"} :
            handle_eew(event_id, kind = "final", FALSE, kind = "canceled")

\* EventStateManager.handle_report for an intensity or an epicentre report:
\* the event's state is created if missing, the timer stopped, the report
\* noted.  The flag system gets no fact from it.
handle_report(event_id, report_type) ==
    /\ earthquake_states' =
          [id \in DOMAIN earthquake_states \cup {event_id} |->
              LET state == IF id \in DOMAIN earthquake_states
                           THEN earthquake_states[id] ELSE create_state(None)
              IN  IF id # event_id THEN state
                  ELSE IF report_type = "sokuhou"
                  THEN [state EXCEPT !.report_sokuhou = TRUE]
                  ELSE [state EXCEPT !.report_epicenter = TRUE]]
    /\ undetected_timers' = stop_undetected_timer(undetected_timers, event_id)
    /\ op' = "report"
    /\ UNCHANGED <<last_eew_time, recent_events, pushed, now>>
    /\ ManagerFrame

HandleReport ==
    \E event_id \in EventIds :
    \E report_type \in {"sokuhou", "epicenter"} :
        handle_report(event_id, report_type)

\* The armed timer of an event runs check_undetected, at its due time or
\* later.
CheckUndetected ==
    \E event_id \in DOMAIN undetected_timers :
        /\ undetected_timers[event_id] <= now
        /\ \E r \in {check_undetected(earthquake_states, undetected_timers,
                                      event_id, now)} :
            /\ earthquake_states' = r.states
            /\ undetected_timers' = r.timers
            /\ op' = IF r.fired THEN "undetected" ELSE "check"
        /\ UNCHANGED <<last_eew_time, recent_events, pushed, now>>
        /\ ManagerFrame

\* Time passes.
Clock ==
    /\ now < MaxTime
    /\ now' = now + 1
    /\ op' = "clock"
    /\ UNCHANGED <<earthquake_states, undetected_timers, last_eew_time,
                   recent_events, pushed>>
    /\ ManagerFrame

\* The EventStateManager with no event known, over an empty flag graph.
InitManager ==
    InitConfig([flags |-> <<>>, upper |-> <<>>, lower |-> <<>>,
                categories |-> {"EEW_STARTED", "EEW_UPDATED", "EEW_FINAL",
                                "EEW_WARNING", "EEW_CANCELED"}])

NextManager == HandleEew \/ HandleReport \/ CheckUndetected \/ Clock

SpecManager == InitManager /\ [][NextManager]_vars

\* ---------------------------------------------------------------- C29
\* C29: the detection of an event without further reports fires exactly when
\* the threshold has elapsed since the most recent EEW fact of the event and
\* no report or cancel fact has arrived for it: whenever it has just fired,
\* the latest EEW fact is at least the threshold old.
C29_QuietSinceLatestEew ==
    op = "undetected"
        => \A event_id \in DOMAIN earthquake_states :
              earthquake_states[event_id].earthquake_completed
                  => /\ now - last_eew_time[event_id] >= UndetectedAfter
                     /\ ~earthquake_states[event_id].eew_canceled
                     /\ ~earthquake_states[event_id].report_sokuhou
                     /\ ~earthquake_states[event_id].report_epicenter

\* ---------------------------------------------------------------- C30
\* The flags as the latest tick found them.
StartFlags ==
    [id \in DOMAIN all_flags |->
        [all_flags[id] EXCEPT !.state = tick_start_state[id]]]

\* Whether some condition of the list with delay 0 was satisfied when the
\* latest tick began.
ZeroDelayMet(conditions) ==
    \E k \in 1..Len(conditions) :
        /\ conditions[k].delay = 0
        /\ check_condition(conditions[k], StartFlags, recent_events)

\* Whether no condition of the list was satisfied when the latest tick began.
NoneMet(conditions) ==
    \A k \in 1..Len(conditions) :
        ~check_condition(conditions[k], StartFlags, recent_events)

\* C30: the on-decision is an OR over all on_conditions.  A lower flag that
\* is off when a tick begins, with some zero-delay on-condition satisfied and
\* no off-condition satisfied, is on at the end of the tick, wherever the
\* condition stands in the list and whatever precedes it.
C30_OnDecisionIsOrOverAll ==
    op = "tick"
        => \A id \in SeqToSet(lower_ids) :
              (/\ ~tick_start_state[id]
               /\ ZeroDelayMet(all_flags[id].on_conditions)
               /\ NoneMet(all_flags[id].off_conditions))
                  => all_flags[id].state


\* ---------------------------------------------------------------- C31
\* The clock readings of the next tick.
NextClocks == {t \in {now, now + 1} : t <= MaxTime}

\* The first pass of a tick at clock t that scans the lower flags in order.
PassInOrder(order, t) ==
    Pass(all_flags, MarkReady(pending_conditions, all_flags, t),
         recent_events, upper_ids, order, t)

\* C31: a pass is two-phase.  Every lower flag is evaluated against the
\* states the pass began with and no state is written during the scan, so
\* the flags after the pass, and the entries scheduled by it, are the same
\* in whatever order the lower flags are scanned.
C31_PassIndependentOfScanOrder ==
    \A t \in NextClocks :
    \A order \in Orders(lower_ids) :
        /\ PassInOrder(order, t).flags = PassInOrder(lower_ids, t).flags
        /\ SeqToSet(PassInOrder(order, t).pending)
              = SeqToSet(PassInOrder(lower_ids, t).pending)

\* A tick has left L1 on and L2 off in the graph with the cycle, and the
\* next pass changes both: L1 turns off, and L2, whose on-condition reads
\* the state of L1, turns on by the state L1 had when the pass began.
C31_DecisionReadsStartOfPass ==
    /\ op = "tick"
    /\ all_flags["L1"].state /\ ~all_flags["L2"].state
    /\ all_flags["L2"].on_conditions = <<FlagCondition("flag_on", "L1", 0)>>
    /\ ~PassInOrder(lower_ids, now).flags["L1"].state
    /\ PassInOrder(lower_ids, now).flags["L2"].state


\* ------------------------------------------- graphs with delayed conditions
\* GraphE: an upper flag over three lower flags that follow the latest
\* EEW_STARTED fact (on) and the latest EEW_FINAL fact (off).  L1 has a
\* delay on both conditions, L2 on its on-condition only, L3 on its
\* off-condition only.
GraphE ==
    [flags |->
        [id \in {"U1", "L1", "L2", "L3"} |->
            CASE id = "U1" ->
                    UpperFlag(Some(1), <<"L1", "L2", "L3">>,
                              <<FlagAction("scene", "A", "", FALSE)>>, <<>>)
              [] id = "L1" ->
                    LowerFlag(<<FlagCondition("eew_new", "", Delay)>>,
                              <<FlagCondition("eew_final", "", Delay)>>,
                              <<>>, <<>>)
              [] id = "L2" ->
                    LowerFlag(<<FlagCondition("eew_new", "", Delay)>>,
                              <<FlagCondition("eew_final", "", 0)>>,
                              <<>>, <<>>)
              [] id = "L3" ->
                    LowerFlag(<<FlagCondition("eew_new", "", 0)>>,
                              <<FlagCondition("eew_final", "", Delay)>>,
                              <<>>, <<>>)],
     upper |-> <<"U1">>,
     lower |-> <<"L1", "L2", "L3">>,
     categories |-> {"EEW_STARTED", "EEW_FINAL"}]

InitPending == InitConfig(GraphE)

\* The flag system alone over the graph with delayed conditions.
SpecPending == InitPending /\ [][NextEngine]_vars

\* ---------------------------------------------------------------- C32
\* The entries of the pending list that the tick at clock t marks ready.
ReadyAt(t) ==
    {k \in 1..Len(pending_conditions) :
        /\ t >= pending_conditions[k].time
        /\ pending_conditions[k].flag_id \in DOMAIN all_flags}

\* Whether the scan of the first pass of the tick at clock t makes a
\* zero-delay decision for the flag.
DecidedAt(flag_id, t) ==
    EvaluateLower(flag_id, all_flags, recent_events,
                  MarkReady(pending_conditions, all_flags, t), t).changes # <<>>

\* Whether another entry of the same flag is ready with entry k.
Contested(k, t) ==
    \E j \in ReadyAt(t) :
        /\ j # k
        /\ pending_conditions[j].flag_id = pending_conditions[k].flag_id

\* C32 as stated: a pending transition that is ready sets the flag to its
\* target state in the pass that applies it, whether or not the condition
\* that scheduled it is still satisfied, provided the scan of that pass
\* makes no zero-delay decision for the flag.
C32_ReadyEntryApplied ==
    \A t \in NextClocks :
    \A k \in ReadyAt(t) :
        ~DecidedAt(pending_conditions[k].flag_id, t)
            => PassInOrder(lower_ids, t).flags[pending_conditions[k].flag_id].state
                  = pending_conditions[k].should_activate

\* C32, amended: the same, provided also that no other pending transition
\* of the same flag is ready in that pass.
C32_ReadyEntryAppliedUnlessContested ==
    \A t \in NextClocks :
    \A k \in ReadyAt(t) :
        (/\ ~DecidedAt(pending_conditions[k].flag_id, t)
         /\ ~Contested(k, t))
            => PassInOrder(lower_ids, t).flags[pending_conditions[k].flag_id].state
                  = pending_conditions[k].should_activate

\* A tick has turned L2 on by its pending entry alone: L2 was off, no
\* on-condition of L2 is satisfied by the facts in the store at the tick,
\* and no off-condition either.
C32_StaleEntryFired ==
    /\ op = "tick"
    /\ ~tick_start_state["L2"]
    /\ all_flags["L2"].state
    /\ <<"L2", TRUE>> \in SeqToSet(notifications)
    /\ FirstSatisfied(all_flags["L2"].on_conditions, 1, all_flags,
                      recent_events) = 0
    /\ FirstSatisfied(all_flags["L2"].off_conditions, 1, all_flags,
                      recent_events) = 0
    /\ \E k \in 1..Len(pending_conditions) :
          /\ pending_conditions[k].flag_id = "L2"
          /\ pending_conditions[k].should_activate
          /\ pending_conditions[k].time <= now


\* ---------------------------------------------------------------- C33
\* Whether the latest tick found an entry of the flag for the target state
\* ready: entries stay in the list, and one scheduled by the tick itself
\* has a time after its clock.
WasReady(flag_id, should_activate) ==
    \E k \in 1..Len(pending_conditions) :
        /\ pending_conditions[k].flag_id = flag_id
        /\ pending_conditions[k].should_activate = should_activate
        /\ pending_conditions[k].time <= now

\* C33 as stated: a lower flag that has in one tick an on decision and an
\* off decision, at least one of them from a ready pending transition
\* (pending on with pending off, pending on with immediate off, pending off
\* with immediate on), is off at the end of the tick.
C33_OffWinsWithPending ==
    op = "tick" =>
        \A l \in SeqToSet(lower_ids) :
            (\/ WasReady(l, TRUE) /\ WasReady(l, FALSE)
             \/ /\ WasReady(l, TRUE)
                /\ ZeroDelaySatisfied(all_flags[l].off_conditions)
             \/ /\ WasReady(l, FALSE)
                /\ ZeroDelaySatisfied(all_flags[l].on_conditions))
                => ~all_flags[l].state


\* ---------------------------------------------------------------- C34
\* C34: a reflect step at which the winner is the upper flag that was the
\* winner before hands no upper-flag action to the controller, issues no
\* call of an exclusive-resource verb and leaves the applied scene and
\* recording state as they were, whatever other upper flags turned on or
\* off since the step before; no off_actions of an upper flag are run.
C34_OutrankedFlagsCauseNoCall ==
    [][(/\ op' = "reflect"
        /\ current_winner # ""
        /\ select_winner(all_flags, upper_ids) = current_winner)
          => /\ dispatched' = <<>>
             /\ \A k \in 1..Len(obs_calls') : obs_calls'[k].verb \notin UpperVerbs
             /\ UNCHANGED <<current_winner, current_scene,
                            current_recording_state>>]_vars

\* A reflect step after U2 turned off with its lower flag L2 while U1, of
\* the higher priority, stayed on and stayed the winner: the off_actions of
\* L2 were run, no upper-flag action was, and the scene U1 asked for stands.
C34_OutrankedFlagTurnedOff ==
    /\ op = "reflect"
    /\ current_winner = "U1"
    /\ all_flags["U1"].priority = Some(1)
    /\ all_flags["U1"].state
    /\ ~all_flags["U2"].state
    /\ \E k \in 1..Len(lower_dispatched) :
          /\ ~lower_dispatched[k].is_active
          /\ lower_dispatched[k].action \in SeqToSet(all_flags["L2"].off_actions)
    /\ dispatched = <<>>
    /\ \A k \in 1..Len(obs_calls) : obs_calls[k].verb \notin UpperVerbs
    /\ current_scene = "A"
    /\ all_flags["U2"].off_actions # <<>>


\* ------------------------------------------------- graphs with mixed actions
\* GraphM: action lists as a configuration file can hold them, with actions
\* of the other layer's kinds.  The on_actions of U1 hold a scene-item and a
\* filter action, the lists of L1 hold scene, recording and replay-buffer
\* actions.  L1 follows the latest EEW_WARNING fact, L2 the latest
\* EEW_CANCELED fact.
GraphM ==
    [flags |->
        [id \in {"U1", "U2", "L1", "L2"} |->
            CASE id = "U1" ->
                    UpperFlag(Some(1), <<"L1">>,
                              <<FlagAction("src_show", "U", "9", FALSE),
                                FlagAction("scene", "A", "", FALSE),
                                FlagAction("filter_on", "mic", "gate", FALSE),
                                FlagAction("rec_start", "", "", FALSE)>>,
                              <<FlagAction("src_hide", "U", "9", FALSE),
                                FlagAction("scene", "Z", "", FALSE)>>)
              [] id = "U2" ->
                    UpperFlag(Some(2), <<"L2">>,
                              <<FlagAction("scene", "B", "", FALSE)>>, <<>>)
              [] id = "L1" ->
                    LowerFlag(<<FlagCondition("warn_new", "", 0)>>,
                              <<FlagCondition("warn_update", "", 0)>>,
                              <<FlagAction("scene", "X", "", FALSE),
                                FlagAction("src_show", "A", "1", FALSE),
                                FlagAction("buffer", "", "", FALSE)>>,
                              <<FlagAction("rec_stop", "", "", FALSE),
                                FlagAction("filter_off", "cam", "blur", FALSE)>>)
              [] id = "L2" ->
                    LowerFlag(<<FlagCondition("eew_cancel", "", 0)>>,
                              <<FlagCondition("warn_cancel", "", 0)>>,
                              <<FlagAction("filter_on", "cam", "blur", FALSE)>>,
                              <<>>)],
     upper |-> <<"U1", "U2">>,
     lower |-> <<"L1", "L2">>,
     categories |-> {"EEW_WARNING", "EEW_CANCELED"}]

InitMixed == InitConfig(GraphM)

\* The flag system and the reflector over the graph with mixed action lists.
SpecMixed == InitMixed /\ [][Next]_vars

\* ---------------------------------------------------------------- C35
\* Whether the action asks for the call: its kind is the verb's kind and its
\* parameters are the call's.
Asks(action, call) ==
    CASE call.verb = "switch_scene" ->
            action.action_type = "scene" /\ action.name = call.name
      [] call.verb = "start_recording" -> action.action_type = "rec_start"
      [] call.verb = "stop_recording" -> action.action_type = "rec_stop"
      [] call.verb = "save_replay_buffer" -> action.action_type = "buffer"
      [] call.verb = "_set_scene_item_visible" ->
            /\ action.action_type \in {"src_show", "src_hide"}
            /\ action.name = call.name /\ action.item = call.item
      [] call.verb = "set_source_filter_enabled" ->
            /\ action.action_type \in {"filter_on", "filter_off"}
            /\ action.name = call.name /\ action.item = call.item
      [] OTHER -> FALSE

\* C35: every call of an exclusive-resource verb that a reflect step
\* issues is asked for by an on_action of the winner the step selected, and
\* every call of a scene-item or filter verb by an action of a lower flag's
\* list that the step ran; the other kinds in a list cause no call.
C35_VerbsByLayer ==
    \A k \in 1..Len(obs_calls) :
        IF obs_calls[k].verb \in UpperVerbs
        THEN /\ current_winner # ""
             /\ \E a \in SeqToSet(all_flags[current_winner].on_actions) :
                    Asks(a, obs_calls[k])
             /\ dispatched = all_flags[current_winner].on_actions
        ELSE \E j \in 1..Len(lower_dispatched) :
                Asks(lower_dispatched[j].action, obs_calls[k])

\* A reflect step that selected U1 and ran the on_actions of L1: the scene,
\* and replay-buffer actions of L1 and the scene-item and filter actions of
\* U1 were handed to the executors and caused no call.
C35_OtherKindsIgnored ==
    /\ op = "reflect"
    /\ current_winner = "U1"
    /\ dispatched = all_flags["U1"].on_actions
    /\ \E j \in 1..Len(lower_dispatched) :
          /\ lower_dispatched[j].action = FlagAction("scene", "X", "", FALSE)
          /\ lower_dispatched[j].is_active
    /\ [k \in 1..Len(obs_calls) |-> <<obs_calls[k].verb, obs_calls[k].name>>]
          = <<<<"switch_scene", "A">>, <<"start_recording", "">>,
              <<"_set_scene_item_visible", "A">>>>


\* ---------------------------------------------------------------- C36
\* The scene and the recording state that a list of upper-flag actions asks
\* for, from the values before: each scene or recording action in turn.
RECURSIVE AskedFor(_, _, _)
AskedFor(actions, k, applied) ==
    IF k > Len(actions) THEN applied
    ELSE AskedFor(actions, k + 1,
             CASE actions[k].action_type = "scene" /\ actions[k].name # "" ->
                     [applied EXCEPT !.scene = actions[k].name]
               [] actions[k].action_type = "rec_start" ->
                     [applied EXCEPT !.rec = Some(TRUE)]
               [] actions[k].action_type = "rec_stop" ->
                     [applied EXCEPT !.rec = Some(FALSE)]
               [] OTHER -> applied)

\* The applied state as a function of the snapshot: what the on_actions of
\* the winner of the snapshot ask for, and with no active upper flag the
\* state of a reflector that never had a winner (no scene, no recording
\* state), which is what the history without facts ends in.
AppliedFor(flags, upper) ==
    LET winner == select_winner(flags, upper)
        default == [scene |-> "", rec |-> None]
    IN  IF winner = "" THEN default
        ELSE AskedFor(flags[winner].on_actions, 1, default)

\* C36 as stated: after a reflect step the applied scene and recording
\* state are a function of the flag snapshot alone, the same for every
\* history that ends in it, the snapshot without an active upper flag
\* included.
C36_AppliedStateFollowsSnapshot ==
    op = "reflect" =>
        /\ current_scene = AppliedFor(all_flags, upper_ids).scene
        /\ current_recording_state = AppliedFor(all_flags, upper_ids).rec


\* ------------------------------------------------ conditions with a filter
\* The intensity scale of the facts, in ascending order.
Scale == <<"1", "2", "3", "4", "5-", "5+", "6-", "6+", "7">>

\* The threshold filters of the settings dialog, in the order of the scale.
ThresholdFilters ==
    <<"1 or higher", "2 or higher", "3 or higher", "4 or higher",
      "5- or higher", "5+ or higher", "6- or higher", "6+ or higher", "7">>

\* A new announcement as a feed hands it to trigger_event: without the key
\* max_intensity, with the null that handle_eew sends, with an intensity of
\* the scale, or with a text that is none ("unknown").
Announcements ==
    {Fact(TRUE, FALSE, FALSE, FALSE)}
    \cup {[is_new |-> TRUE, is_final |-> FALSE, is_canceled |-> FALSE,
           is_warning |-> FALSE, max_intensity |-> i]
          : i \in SeqToSet(Scale) \cup {"null", "unknown"}}

\* GraphI: U1 over L1, which turns on by a new announcement that passes
\* the intensity filter f and has no off-condition.
GraphI(f) ==
    [flags |->
        [id \in {"U1", "L1"} |->
            IF id = "U1"
            THEN UpperFlag(Some(1), <<"L1">>,
                           <<FlagAction("scene", "A", "", FALSE)>>, <<>>)
            ELSE LowerFlag(<<[condition_type |-> "eew_new", flag_id |-> "",
                              delay |-> 0, intensity_filter |-> f]>>,
                           <<>>, <<>>, <<>>)],
     upper |-> <<"U1">>,
     lower |-> <<"L1">>,
     categories |-> {"EEW_STARTED"}]

\* The flag system with one announcement in the store, for every filter
\* and every announcement.
InitIntensity ==
    \E f \in SeqToSet(ThresholdFilters) \cup {"no filter"} :
    \E event_data \in Announcements :
        InitStore(GraphI(f), [category \in {"EEW_STARTED"} |-> <<event_data>>])

\* The stabilization timer alone: the fact is in the store.
NextIntensity == Tick

SpecIntensity == InitIntensity /\ [][NextIntensity]_vars

\* ---------------------------------------------------------------- C37
\* The place of x in the list, 0 when it is not in it.
Rank(list, x) ==
    IF \E k \in 1..Len(list) : list[k] = x
    THEN CHOOSE k \in 1..Len(list) : list[k] = x
    ELSE 0

\* The intensity filter of the on-condition of L1 and the intensity of the
\* latest fact ("" when the fact has none).
FilterOfL1 == all_flags["L1"].on_conditions[1].intensity_filter

LatestIntensity ==
    GetOr(LatestEvent(recent_events, "EEW_STARTED"), "max_intensity", "")

\* C37 as stated: a threshold filter passes exactly when the latest fact's
\* max intensity is at or above the filter's threshold in the scale
\* 1 < 2 < 3 < 4 < 5- < 5+ < 6- < 6+ < 7, and a missing or unknown
\* intensity fails every threshold filter: after a tick L1 is on exactly
\* in that case.
C37_IntensityThreshold ==
    (op = "tick" /\ FilterOfL1 # "no filter")
        => (all_flags["L1"].state
              <=> /\ Rank(Scale, LatestIntensity) > 0
                  /\ Rank(Scale, LatestIntensity)
                        >= Rank(ThresholdFilters, FilterOfL1))

\* ------------------------------------------------------ the instance system
\* The event ids the telegrams carry.
InstanceEventIds == {"e1", "e2"}

\* A fact as the InstanceSystem reads it: is_new, is_canceled and event_id
\* ("" where the telegram has none).  The key _timestamp trigger_event adds
\* to its copy is read by nothing and is left out.
InstanceFact(is_new, is_canceled, event_id) ==
    [is_new |-> is_new, is_canceled |-> is_canceled, event_id |-> event_id]

InstanceCategories == {"EEW_STARTED", "EEW_CANCELED", "DETAIL_RECEIVED"}

\* The payloads pushed per event type: a new announcement of either event
\* and a repeated one, a cancellation with and without an event id, a
\* detail report with and without an event id.
InstancePayloads(event_type) ==
    CASE event_type = "EEW_STARTED" ->
            {InstanceFact(TRUE, FALSE, "e1"), InstanceFact(TRUE, FALSE, "e2"),
             InstanceFact(FALSE, FALSE, "e1")}
      [] event_type = "EEW_CANCELED" ->
            {InstanceFact(FALSE, TRUE, "e1"), InstanceFact(FALSE, TRUE, "")}
      [] event_type = "DETAIL_RECEIVED" ->
            {InstanceFact(FALSE, FALSE, "e2"), InstanceFact(FALSE, FALSE, "")}

\* InstanceSystem._check_intensity_filter: the tables are those of the
\* flag system.
InstanceSystem_check_intensity_filter(max_intensity, filter_value) ==
    IntensityMap(max_intensity) >= FilterMap(filter_value)

\* InstanceSystem._check_eew_condition
InstanceSystem_check_eew_condition(params, event_data, announcement_type) ==
    LET announcement_types == GetOr(params, "announcement_types", {})
        intensity_filter == GetOr(params, "intensity_filter", "no filter")
    IN  IF announcement_types # {} /\ announcement_type \notin announcement_types
        THEN FALSE
        ELSE IF intensity_filter # "no filter"
        THEN InstanceSystem_check_intensity_filter(
                 GetOr(event_data, "max_intensity", ""), intensity_filter)
        ELSE TRUE

\* InstanceSystem._check_condition(condition, instance): the instance is
\* not read.  condition_type: "eew_new" is 'EEW new announcement',
\* "eew_update" 'EEW update', "eew_cancel" 'EEW cancellation', "detail",
\* "sokuhou" and "epicenter" the three earthquake reports, "tsunami" and
\* "tsunami_cancel" the tsunami information and its cancellation,
\* "undetected" the unfelt earthquake.
InstanceSystem_check_condition(condition, events) ==
    CASE condition.condition_type = "eew_new" ->
            /\ HasEvents(events, "EEW_STARTED")
            /\ GetOr(LatestEvent(events, "EEW_STARTED"), "is_new", FALSE)
            /\ InstanceSystem_check_eew_condition(
                   condition, LatestEvent(events, "EEW_STARTED"),
                   "new announcement")
      [] condition.condition_type = "eew_update" ->
            /\ HasEvents(events, "EEW_UPDATED")
            /\ ~GetOr(LatestEvent(events, "EEW_UPDATED"), "is_new", FALSE)
            /\ InstanceSystem_check_eew_condition(
                   condition, LatestEvent(events, "EEW_UPDATED"),
                   "update announcement")
      [] condition.condition_type = "eew_cancel" ->
            /\ HasEvents(events, "EEW_CANCELED")
            /\ GetOr(LatestEvent(events, "EEW_CANCELED"), "is_canceled", FALSE)
            /\ InstanceSystem_check_eew_condition(
                   condition, LatestEvent(events, "EEW_CANCELED"),
                   "cancellation")
      [] condition.condition_type = "detail" ->
            HasEvents(events, "DETAIL_RECEIVED")
      [] condition.condition_type = "sokuhou" ->
            HasEvents(events, "SOKUHOU_RECEIVED")
      [] condition.condition_type = "epicenter" ->
            HasEvents(events, "EPICENTER_RECEIVED")
      [] condition.condition_type = "tsunami" ->
            /\ HasEvents(events, "TSUNAMI_RECEIVED")
            /\ ~GetOr(LatestEvent(events, "TSUNAMI_RECEIVED"),
                      "is_canceled", FALSE)
      [] condition.condition_type = "tsunami_cancel" ->
            /\ HasEvents(events, "TSUNAMI_CANCELED")
            /\ GetOr(LatestEvent(events, "TSUNAMI_CANCELED"),
                     "is_canceled", FALSE)
      [] OTHER -> FALSE

\* InstanceSystem._extract_event_id_from_recent_events, from the k-th event
\* type of the dictionary on: the event id of the latest fact of the first
\* event type whose latest fact has one, "" for None.
RECURSIVE extract_event_id_from_recent_events(_, _)
extract_event_id_from_recent_events(ev, k) ==
    IF k > Len(ev.order) THEN ""
    ELSE LET events == ev.lists[ev.order[k]]
         IN  IF events # <<>> /\ GetOr(events[Len(events)], "event_id", "") # ""
             THEN events[Len(events)].event_id
             ELSE extract_event_id_from_recent_events(ev, k + 1)

\* The loop over the create_conditions of one instance type, from the k-th
\* on: the event id to create an instance for, "" when should_create stays
\* False.
RECURSIVE CreateDecision(_, _, _)
CreateDecision(create_conditions, k, ev) ==
    IF k > Len(create_conditions) THEN ""
    ELSE IF /\ InstanceSystem_check_condition(create_conditions[k], ev.lists)
            /\ extract_event_id_from_recent_events(ev, 1) # ""
    THEN extract_event_id_from_recent_events(ev, 1)
    ELSE CreateDecision(create_conditions, k + 1, ev)

\* EarthquakeInstance.__init__
EarthquakeInstance(instance_type, event_id, created_at) ==
    [instance_type |-> instance_type, event_id |-> event_id,
     created_at |-> created_at, is_active |-> TRUE, ended_at |-> None]

\* The instance id f"{type_id}_{event_id}_{int(current_time * 1000)}".
InstanceId(type_id, event_id, current_time) ==
    <<type_id, event_id, current_time>>

\* A first stage that creates an instance whenever a create-condition is
\* satisfied, with no look at event_to_instance.
RECURSIVE CreateInstancesUnchecked(_, _, _, _, _, _)
CreateInstancesUnchecked(types, i, insts, mapping, ev, current_time) ==
    IF i > Len(types) THEN [instances |-> insts, event_to_instance |-> mapping]
    ELSE LET event_id == CreateDecision(types[i].create_conditions, 1, ev)
             instance_id == InstanceId(types[i].type_id, event_id, current_time)
         IN  IF event_id = ""
             THEN CreateInstancesUnchecked(types, i + 1, insts, mapping, ev,
                                           current_time)
             ELSE CreateInstancesUnchecked(
                      types, i + 1,
                      (instance_id :> EarthquakeInstance(types[i].type_id,
                                                         event_id, current_time))
                          @@ insts,
                      (event_id :> instance_id) @@ mapping, ev, current_time)

\* The first stage of InstanceSystem._stabilize_state, from the i-th
\* instance type on: an instance is created for the event id unless
\* event_to_instance leads to an instance that is active.
RECURSIVE CreateInstances(_, _, _, _, _, _)
CreateInstances(types, i, insts, mapping, ev, current_time) ==
    IF i > Len(types) THEN [instances |-> insts, event_to_instance |-> mapping]
    ELSE LET event_id == CreateDecision(types[i].create_conditions, 1, ev)
             instance_id == InstanceId(types[i].type_id, event_id, current_time)
         IN  IF event_id = ""
             THEN CreateInstances(types, i + 1, insts, mapping, ev, current_time)
             ELSE IF /\ event_id \in DOMAIN mapping
                     /\ mapping[event_id] \in DOMAIN insts
                     /\ insts[mapping[event_id]].is_active
             THEN CreateInstances(types, i + 1, insts, mapping, ev, current_time)
             ELSE CreateInstances(
                      types, i + 1,
                      (instance_id :> EarthquakeInstance(types[i].type_id,
                                                         event_id, current_time))
                          @@ insts,
                      (event_id :> instance_id) @@ mapping, ev, current_time)

\* self.instance_types.get(type_id), as a set.
TypeConfig(types, type_id) ==
    {types[k] : k \in {j \in 1..Len(types) : types[j].type_id = type_id}}

\* The second stage: an active instance of a known type ends when one of
\* the end_conditions of its type is satisfied (EarthquakeInstance.end);
\* its entry of event_to_instance stays.
EndInstances(types, insts, ev, current_time) ==
    [instance_id \in DOMAIN insts |->
        IF /\ insts[instance_id].is_active
           /\ \E type_config \in TypeConfig(types, insts[instance_id].instance_type) :
              \E k \in 1..Len(type_config.end_conditions) :
                 InstanceSystem_check_condition(type_config.end_conditions[k],
                                                ev.lists)
        THEN [insts[instance_id] EXCEPT !.is_active = FALSE,
                                        !.ended_at = Some(current_time)]
        ELSE insts[instance_id]]

\* InstanceSystem._update_active_states: an EARTHQUAKE_ACTIVE is on exactly
\* when an instance of one of its aggregated types is active.
update_active_states(actives, insts, states) ==
    [active_id \in DOMAIN states \cup {actives[k].active_id : k \in 1..Len(actives)} |->
        IF \E k \in 1..Len(actives) : actives[k].active_id = active_id
        THEN \E k \in 1..Len(actives) :
                /\ actives[k].active_id = active_id
                /\ \E instance_id \in DOMAIN insts :
                      /\ insts[instance_id].instance_type
                            \in actives[k].aggregated_instance_types
                      /\ insts[instance_id].is_active
        ELSE states[active_id]]

\* InstanceSystem.trigger_event(event_type, event_data): the fact is put in
\* the system's own store, a new event type behind the known ones, and
\* handed to FlagSystem.trigger_event.
InstancePush(ev, event_type, event_data) ==
    IF event_type \in DOMAIN ev.lists
    THEN [ev EXCEPT !.lists[event_type] = PushEvent(@, event_data)]
    ELSE [order |-> Append(ev.order, event_type),
          lists |-> (event_type :> <<event_data>>) @@ ev.lists]

InstanceTriggerEvent ==
    /\ SumLen(pushed, DOMAIN pushed) < MaxEvents
    /\ \E event_type \in InstanceCategories :
       \E event_data \in InstancePayloads(event_type) :
          /\ instance_recent_events' =
                 InstancePush(instance_recent_events, event_type, event_data)
          /\ recent_events' = [recent_events EXCEPT
                                  ![event_type] = PushEvent(@, event_data)]
          /\ pushed' = [pushed EXCEPT ![event_type] = Append(@, event_data)]
    /\ op' = "instance_event"
    /\ UNCHANGED <<all_flags, upper_ids, lower_ids, all_ids,
                   pending_conditions, now, previous_state, current_winner,
                   current_scene, current_recording_state, obs_calls,
                   dispatched, lower_dispatched, notifications, last_applied,
                   iteration, tick_start_state, delay_run, threads,
                   stored_config, manager_vars, instance_types,
                   active_configs, instances, event_to_instance, active_states>>

\* InstanceSystem._stabilize_state, run by the 100 ms timer: two runs are
\* at least 100 ms apart, so each reads a later clock than the one before.
InstanceTick ==
    /\ now + 1 <= MaxTime
    /\ \E created \in {CreateInstances(instance_types, 1, instances,
                                       event_to_instance,
                                       instance_recent_events, now + 1)} :
       \E ended \in {EndInstances(instance_types, created.instances,
                                  instance_recent_events, now + 1)} :
          /\ instances' = ended
          /\ event_to_instance' = created.event_to_instance
          /\ active_states' = update_active_states(active_configs, ended,
                                                   active_states)
    /\ now' = now + 1
    /\ op' = "instance_tick"
    /\ UNCHANGED <<all_flags, upper_ids, lower_ids, all_ids, recent_events,
                   pending_conditions, previous_state, current_winner,
                   current_scene, current_recording_state, obs_calls,
                   dispatched, lower_dispatched, notifications, last_applied,
                   pushed, iteration, tick_start_state, delay_run, threads,
                   stored_config, manager_vars, instance_types,
                   active_configs, instance_recent_events>>

\* Two instance types and one EARTHQUAKE_ACTIVE over both: "quake" is
\* created by a new EEW announcement or a detail report and ended by an EEW
\* cancellation, "report" is created by a detail report and never ended.
InstanceTypes ==
    <<[type_id |-> "quake",
       create_conditions |-> <<[condition_type |-> "eew_new"],
                               [condition_type |-> "detail"]>>,
       end_conditions |-> <<[condition_type |-> "eew_cancel"]>>],
      [type_id |-> "report",
       create_conditions |-> <<[condition_type |-> "detail"]>>,
       end_conditions |-> <<>>]>>

ActiveConfigs ==
    <<[active_id |-> "active", aggregated_instance_types |-> {"quake", "report"}]>>

\* The InstanceSystem with these types, attached to a flag system with an
\* empty flag graph.
InitInstances ==
    /\ InitFlagSystem([flags |-> <<>>, upper |-> <<>>, lower |-> <<>>,
                       categories |-> InstanceCategories],
                      [category \in InstanceCategories |-> <<>>], Missing)
    /\ InitInstanceSystem(InstanceTypes, ActiveConfigs)

NextInstances == InstanceTriggerEvent \/ InstanceTick

SpecInstances == InitInstances /\ [][NextInstances]_vars

\* ---------------------------------------------------------------- C38
\* The instances of event id e that are active.
ActiveInstancesOf(e) ==
    {instance_id \in DOMAIN instances :
        instances[instance_id].event_id = e /\ instances[instance_id].is_active}

\* C38: after any sequence of facts and ticks there is at most one active
\* instance per event id, and a tick creates no instance for an event id
\* that had an active instance, whatever type's create-condition is
\* satisfied.
C38_OneActiveInstancePerEvent ==
    /\ [](\A e \in InstanceEventIds : Cardinality(ActiveInstancesOf(e)) <= 1)
    /\ [][op' = "instance_tick" =>
            \A instance_id \in DOMAIN instances' \ DOMAIN instances :
                ActiveInstancesOf(instances'[instance_id].event_id) = {}]_vars

\* The case of C38: after a tick the create-conditions of both types are
\* satisfied for the event "e2", which has one active instance, of "quake".
C38_SecondTypeCreatedNothing ==
    /\ op = "instance_tick"
    /\ \A k \in 1..Len(instance_types) :
          CreateDecision(instance_types[k].create_conditions, 1,
                         instance_recent_events) = "e2"
    /\ \E instance_id \in ActiveInstancesOf("e2") :
          /\ ActiveInstancesOf("e2") = {instance_id}
          /\ instances[instance_id].instance_type = "quake"

\* ---------------------------------------------------------------- C39
\* C39 as stated: once the instance of an event id has ended, no later tick
\* creates an instance for the same event id, even while the
\* create-condition stays satisfied: no instance of the event id is created
\* after the time another one of it ended.
C39_NoInstanceAfterEnd ==
    \A i, j \in DOMAIN instances :
        (/\ i # j
         /\ instances[i].event_id = instances[j].event_id
         /\ instances[i].ended_at # None)
            => instances[j].created_at <= Get(instances[i].ended_at)

\* ---------------------------------------------------------------- C40
\* C40 as stated: over a whole tick the last_state_change_time of a flag
\* changes only if the state of the flag at the end of the tick differs
\* from its state at the start, so a tick that leaves every state as it was
\* leaves the change times, and with them the winner, as they were.
C40_ChangeTimeOnlyWithNetChange ==
    [][op' = "tick" =>
        /\ \A id \in DOMAIN all_flags :
              all_flags'[id].state = all_flags[id].state
                 => all_flags'[id].last_state_change_time
                        = all_flags[id].last_state_change_time
        /\ (\A id \in DOMAIN all_flags :
                all_flags'[id].state = all_flags[id].state)
              => select_winner(all_flags', upper_ids)
                    = select_winner(all_flags, upper_ids)]_vars

====
